---- MODULE Spec2Model ----
(***************************************************************************)
(* Model of the cf_ai_baseball Worker (src/workers/agent.ts): the fetch    *)
(* handler and its pipeline generateSQL -> executeQuery -> formatResponse  *)
(* with the deterministic formatters formatSimple and formatTable.         *)
(*                                                                         *)
(* JavaScript strings are TLA+ strings (TLC evaluates Len, \o, SubSeq,     *)
(* Head and Tail on them).  A JavaScript value is a record with a tag t:   *)
(* undefined, null, bool, num, str, arr or obj.  A number is kept in       *)
(* hundredths (field c), so 94 is c = 9400 and 2.54 is c = 254; every      *)
(* number of the model has at most two decimals.  An object keeps its      *)
(* properties in insertion order as a sequence of [k, v] pairs, which is   *)
(* the order Object.keys returns.                                          *)
(***************************************************************************)
EXTENDS Integers, Sequences, FiniteSets, TLC

VARIABLES
    request,        \* request[r]: the inbound Request (method, path, body)
    pc,             \* pc[r]: where the handler of request r is suspended
    message,        \* message[r]: `message` of fetch, a JavaScript value
    sqlQuery,       \* sqlQuery[r]: `sqlQuery` of fetch
    queryResults,   \* queryResults[r]: `queryResults` of fetch
    response,       \* response[r]: the Response fetch resolved to
    inflight,       \* inflight[r]: outbound calls started and not settled
    aiCalls,        \* aiCalls[r]: the arguments of every env.AI.run call
    dbCalls,        \* dbCalls[r]: the statement of every env.DB.prepare().all()
    events,         \* events[r]: start/end of each outbound call, in order
    branch,         \* branch[r]: the formatResponse branch that answered
    replies,        \* replies[r]: how each outbound call of r settled
    dataset,        \* the rows of the D1 database, by table
    seed,           \* the run of scripts/seed_d1.ts: position, inputs, output
    page            \* the chat page in a browser: controls, messages, calls

vars == <<request, pc, message, sqlQuery, queryResults, response,
          inflight, aiCalls, dbCalls, events, branch, replies, dataset, seed,
          page>>

\* What the Worker's handler never touches.
outside == <<seed, page>>

-----------------------------------------------------------------------------
(* Bounds *)

\* Largest number of rows one D1 result carries in the model.
MaxRows == 2

\* Largest number of pieces the model's SQL text is assembled from.
MaxSqlTokens == 4

\* Largest number of data rows of one CSV file given to the seed script.
MaxCsvRows == 2

\* Largest number of /api/chat requests one page issues.
MaxSends == 3

-----------------------------------------------------------------------------
(* JavaScript values *)

Undefined == [t |-> "undefined"]
Null == [t |-> "null"]
Bool(b) == [t |-> "bool", b |-> b]
Num(c) == [t |-> "num", c |-> c]
NaN == [t |-> "nan"]
Str(s) == [t |-> "str", s |-> s]
Arr == [t |-> "arr"]
Obj(fields) == [t |-> "obj", fields |-> fields]

\* An Error object: what `throw` carries in this program.
Error(name, msg) == [name |-> name, message |-> msg]

\* ToBoolean: the falsy values are undefined, null, false, 0, NaN and "".
Truthy(v) ==
    CASE v.t = "undefined" -> FALSE
      [] v.t = "null" -> FALSE
      [] v.t = "bool" -> v.b
      [] v.t = "num" -> v.c # 0
      [] v.t = "nan" -> FALSE
      [] v.t = "str" -> v.s # ""
      [] OTHER -> TRUE

\* Property read obj[key]; undefined when the property is absent or the
\* value is a primitive or an array without that property.
Get(v, key) ==
    IF v.t = "obj" /\ \E i \in 1..Len(v.fields) : v.fields[i].k = key
    THEN LET i == CHOOSE j \in 1..Len(v.fields) : v.fields[j].k = key
         IN v.fields[i].v
    ELSE Undefined

\* Object.keys(row)
Keys(v) == [i \in 1..Len(v.fields) |-> v.fields[i].k]

-----------------------------------------------------------------------------
(* String primitives *)

CharAt(s, i) == SubSeq(s, i, i)

IsWhitespace(c) == c \in {" ", "\n", "\t", "\r"}

RECURSIVE TrimStart(_)
TrimStart(s) ==
    IF s = "" THEN ""
    ELSE IF IsWhitespace(Head(s)) THEN TrimStart(Tail(s)) ELSE s

RECURSIVE TrimEnd(_)
TrimEnd(s) ==
    IF s = "" THEN ""
    ELSE IF IsWhitespace(CharAt(s, Len(s)))
         THEN TrimEnd(SubSeq(s, 1, Len(s) - 1)) ELSE s

\* String.prototype.trim
Trim(s) == TrimEnd(TrimStart(s))

StartsWith(s, p) == Len(s) >= Len(p) /\ SubSeq(s, 1, Len(p)) = p

EndsWith(s, p) ==
    Len(s) >= Len(p) /\ SubSeq(s, Len(s) - Len(p) + 1, Len(s)) = p

\* String.prototype.includes
Includes(s, p) ==
    \E i \in 1..(Len(s) - Len(p) + 1) : SubSeq(s, i, i + Len(p) - 1) = p

Drop(s, n) == SubSeq(s, n + 1, Len(s))

\* s.replace(/<fence>\n?/g, ''): every non-overlapping occurrence of fence,
\* scanned left to right, is removed together with one following newline.
RECURSIVE RemoveFence(_, _)
RemoveFence(s, fence) ==
    IF s = "" THEN ""
    ELSE IF StartsWith(s, fence)
         THEN LET rest == Drop(s, Len(fence))
              IN RemoveFence(IF StartsWith(rest, "\n") THEN Drop(rest, 1)
                             ELSE rest, fence)
         ELSE Head(s) \o RemoveFence(Tail(s), fence)

\* The index of the first occurrence of sep in s at or after i, 0 when
\* there is none.
RECURSIVE FindFrom(_, _, _)
FindFrom(s, sep, i) ==
    IF i + Len(sep) - 1 > Len(s) THEN 0
    ELSE IF SubSeq(s, i, i + Len(sep) - 1) = sep THEN i
    ELSE FindFrom(s, sep, i + 1)

\* String.prototype.indexOf, counted from 1; 0 when sep does not occur.
IndexOf(s, sep) == FindFrom(s, sep, 1)

\* s.split(sep) for a non-empty separator.
RECURSIVE Split(_, _)
Split(s, sep) ==
    LET i == IndexOf(s, sep)
    IN IF i = 0 THEN <<s>>
       ELSE <<SubSeq(s, 1, i - 1)>> \o Split(Drop(s, i + Len(sep) - 1), sep)

\* s.replace(/'/g, "''")
RECURSIVE EscapeQuotes(_)
EscapeQuotes(s) ==
    IF s = "" THEN ""
    ELSE (IF Head(s) = "'" THEN "''" ELSE Head(s)) \o EscapeQuotes(Tail(s))

\* Array.prototype.join over a sequence of strings
RECURSIVE Join(_, _)
Join(parts, sep) ==
    IF Len(parts) = 0 THEN ""
    ELSE IF Len(parts) = 1 THEN parts[1]
    ELSE parts[1] \o sep \o Join(Tail(parts), sep)

-----------------------------------------------------------------------------
(* Numbers *)

Abs(n) == IF n < 0 THEN -n ELSE n

TwoDigits(n) == IF n < 10 THEN "0" \o ToString(n) ELSE ToString(n)

\* Number.prototype.toFixed(2) of c hundredths; NaN prints as "NaN".
ToFixed2(v) ==
    IF v.t = "nan" THEN "NaN"
    ELSE (IF v.c < 0 THEN "-" ELSE "") \o ToString(Abs(v.c) \div 100)
         \o "." \o TwoDigits(Abs(v.c) % 100)

\* Number to string as in a template literal: no trailing zeros.
NumToString(c) ==
    LET a == Abs(c)
        frac == a % 100
    IN (IF c < 0 THEN "-" ELSE "") \o ToString(a \div 100)
       \o (IF frac = 0 THEN ""
           ELSE IF frac % 10 = 0 THEN "." \o ToString(frac \div 10)
           ELSE "." \o TwoDigits(frac))

Digits == {"0", "1", "2", "3", "4", "5", "6", "7", "8", "9"}

DigitVal(d) ==
    CASE d = "0" -> 0 [] d = "1" -> 1 [] d = "2" -> 2 [] d = "3" -> 3
      [] d = "4" -> 4 [] d = "5" -> 5 [] d = "6" -> 6 [] d = "7" -> 7
      [] d = "8" -> 8 [] d = "9" -> 9

\* Length of the longest prefix of s made of digits.
RECURSIVE DigitPrefix(_)
DigitPrefix(s) ==
    IF s # "" /\ Head(s) \in Digits THEN 1 + DigitPrefix(Tail(s)) ELSE 0

RECURSIVE DigitsValue(_, _)
DigitsValue(s, acc) ==
    IF s = "" THEN acc ELSE DigitsValue(Tail(s), 10 * acc + DigitVal(Head(s)))

\* parseFloat of a string: leading whitespace, optional sign, digits and an
\* optional fraction of which the model keeps the first two digits.
ParseFloatStr(s0) ==
    LET s1 == TrimStart(s0)
        neg == StartsWith(s1, "-")
        s == IF neg \/ StartsWith(s1, "+") THEN Drop(s1, 1) ELSE s1
        n == DigitPrefix(s)
        afterInt == Drop(s, n)
        fracLen == IF StartsWith(afterInt, ".")
                   THEN DigitPrefix(Drop(afterInt, 1)) ELSE 0
        frac == SubSeq(Drop(afterInt, 1), 1, IF fracLen > 2 THEN 2 ELSE fracLen)
        fracVal == IF fracLen = 0 THEN 0
                   ELSE IF Len(frac) = 1 THEN 10 * DigitsValue(frac, 0)
                   ELSE DigitsValue(frac, 0)
        mag == 100 * DigitsValue(SubSeq(s, 1, n), 0) + fracVal
    IN IF n = 0 /\ fracLen = 0 THEN NaN
       ELSE Num(IF neg THEN -mag ELSE mag)

\* Template-literal / String(v) conversion of a value.
ToStr(v) ==
    CASE v.t = "undefined" -> "undefined"
      [] v.t = "null" -> "null"
      [] v.t = "bool" -> IF v.b THEN "true" ELSE "false"
      [] v.t = "num" -> NumToString(v.c)
      [] v.t = "nan" -> "NaN"
      [] v.t = "str" -> v.s
      [] v.t = "arr" -> ""
      [] OTHER -> "[object Object]"

\* parseFloat(v): the argument is converted to a string and parsed.
ParseFloat(v) == IF v.t = "num" THEN v ELSE ParseFloatStr(ToStr(v))

\* JSON.stringify of a scalar value (strings of the model need no escapes).
JsonValue(v) ==
    CASE v.t = "str" -> "\"" \o v.s \o "\""
      [] v.t = "num" -> NumToString(v.c)
      [] v.t = "bool" -> IF v.b THEN "true" ELSE "false"
      [] OTHER -> "null"

\* JSON.stringify(row) of a flat object; undefined properties are skipped.
JsonStringify(row) ==
    LET defined == SelectSeq(row.fields, LAMBDA f : f.v.t # "undefined")
    IN "{" \o Join([i \in 1..Len(defined) |->
                      "\"" \o defined[i].k \o "\":" \o JsonValue(defined[i].v)],
                   ",") \o "}"

-----------------------------------------------------------------------------
(* generateSQL: post-processing of the model's text *)

\* A TLA+ string cannot hold the backquote character: the model writes it ~,
\* a character no other text of the model uses.
Backquote == "~"

\* The code-fence delimiter: three backquotes.
Fence == Backquote \o Backquote \o Backquote

\* sql.replace(/<fence>sql\n?/g, '').replace(/<fence>\n?/g, '')
StripFences(s) == RemoveFence(RemoveFence(s, Fence \o "sql"), Fence)

\* generateSQL without the trim that follows the fence removal.
NormalizeSQL_noSecondTrim(raw) ==
    LET sql == StripFences(Trim(raw))
    IN IF EndsWith(sql, ";") THEN sql ELSE sql \o ";"

\* generateSQL appending the semicolon without looking at the text.
NormalizeSQL_alwaysAppend(raw) == Trim(StripFences(Trim(raw))) \o ";"

\* Lines 118-126 of generateSQL: trim, strip fences, trim, terminate.
NormalizeSQL(raw) ==
    LET sql == Trim(StripFences(Trim(raw)))
    IN IF EndsWith(sql, ";") THEN sql ELSE sql \o ";"

\* The receiver of `response.response.trim()` on what ai.run resolved to: a
\* TypeError when the value or its `response` is null/undefined or has no
\* trim method, the string to trim otherwise.
ResponseText(value) ==
    IF value.t \in {"undefined", "null"}
    THEN [threw |-> TRUE,
          error |-> Error("TypeError", "Cannot read properties of "
                            \o value.t \o " (reading 'response')")]
    ELSE LET text == Get(value, "response")
         IN IF text.t \in {"undefined", "null"}
            THEN [threw |-> TRUE,
                  error |-> Error("TypeError", "Cannot read properties of "
                                    \o text.t \o " (reading 'trim')")]
            ELSE IF text.t # "str"
            THEN [threw |-> TRUE,
                  error |-> Error("TypeError",
                                  "response.response.trim is not a function")]
            ELSE [threw |-> FALSE, text |-> text.s]

\* generateSQL answering a rejected ai.run with a canned statement.
GenerateSQLResult_canned(reply) ==
    IF reply.kind = "throw"
    THEN [threw |-> FALSE, sql |-> "SELECT * FROM pitching LIMIT 10;"]
    ELSE IF ResponseText(reply.value).threw
    THEN [threw |-> TRUE, error |-> ResponseText(reply.value).error]
    ELSE [threw |-> FALSE, sql |-> NormalizeSQL(ResponseText(reply.value).text)]

\* generateSQL from the point where ai.run settles with `reply`: a rejection
\* propagates, a resolved value is normalized into the statement.
GenerateSQLResult(reply) ==
    IF reply.kind = "throw" THEN [threw |-> TRUE, error |-> reply.error]
    ELSE IF ResponseText(reply.value).threw
    THEN [threw |-> TRUE, error |-> ResponseText(reply.value).error]
    ELSE [threw |-> FALSE, sql |-> NormalizeSQL(ResponseText(reply.value).text)]

-----------------------------------------------------------------------------
(* executeQuery *)

\* executeQuery swallowing the engine's error and returning no rows.
ExecuteQueryResult_swallow(reply) ==
    IF reply.kind = "throw" THEN [threw |-> FALSE, rows |-> <<>>]
    ELSE [threw |-> FALSE,
          rows |-> IF reply.hasResults THEN reply.results ELSE <<>>]

\* executeQuery treating a result without a row list as a failure.
ExecuteQueryResult_requireRows(reply) ==
    IF reply.kind = "throw"
    THEN [threw |-> TRUE,
          error |-> Error("Error", "Database query failed: "
                                     \o reply.error.message)]
    ELSE IF ~reply.hasResults
    THEN [threw |-> TRUE,
          error |-> Error("Error", "Database query failed: no results")]
    ELSE [threw |-> FALSE, rows |-> reply.results]

\* executeQuery from the point where db.prepare(sql).all() settles: the
\* engine's error is re-thrown with a prefix, a missing row list becomes [].
ExecuteQueryResult(reply) ==
    IF reply.kind = "throw"
    THEN [threw |-> TRUE,
          error |-> Error("Error", "Database query failed: "
                                     \o reply.error.message)]
    ELSE [threw |-> FALSE,
          rows |-> IF reply.hasResults THEN reply.results ELSE <<>>]

-----------------------------------------------------------------------------
(* formatTable and formatSimple *)

\* One cell of formatTable printing every value with String(val).
Cell_string(val) == ToStr(val)

\* One cell of formatTable.
Cell(val) ==
    IF val.t = "null" THEN ""
    ELSE IF val.t \in {"num", "nan"} THEN ToFixed2(val) ELSE ToStr(val)

formatTable(results) ==
    IF Len(results) = 0 THEN "No results found."
    ELSE LET keys == Keys(results[1])
             header == Join(keys, " | ")
             separator == Join([i \in 1..Len(keys) |-> "---"], " | ")
             rows == [n \in 1..Len(results) |->
                        Join([i \in 1..Len(keys) |->
                                Cell(Get(results[n], keys[i]))], " | ")]
         IN Join(<<header, separator>> \o rows, "\n")

\* The sentence parts of a single row with several columns.
SentenceParts(row) ==
    (IF Truthy(Get(row, "nameFirst")) /\ Truthy(Get(row, "nameLast"))
     THEN <<ToStr(Get(row, "nameFirst")) \o " " \o ToStr(Get(row, "nameLast"))>>
     ELSE <<>>)
    \o (IF Get(row, "ERA").t # "undefined"
        THEN <<"ERA: " \o ToFixed2(ParseFloat(Get(row, "ERA")))>> ELSE <<>>)
    \o (IF Get(row, "SO").t # "undefined"
        THEN <<ToStr(Get(row, "SO")) \o " SO">> ELSE <<>>)
    \o (IF Get(row, "W").t # "undefined"
        THEN <<ToStr(Get(row, "W")) \o " W">> ELSE <<>>)
    \o (IF Truthy(Get(row, "yearID"))
        THEN <<"(" \o ToStr(Get(row, "yearID")) \o ")">> ELSE <<>>)

\* The sentence without the JSON dump for a row with no well-known column.
SentenceOrDump_joinOnly(row) == Join(SentenceParts(row), " ")

\* parts.length > 0 ? parts.join(' ') : JSON.stringify(row)
SentenceOrDump(row) ==
    IF Len(SentenceParts(row)) > 0 THEN Join(SentenceParts(row), " ")
    ELSE JsonStringify(row)

\* The single-row, single-column sentence with the average printed as is.
SingleValue_rawAverage(key, value) ==
    IF value.t \in {"null", "undefined"} THEN "No data available."
    ELSE IF Includes(key, "SUM(") THEN "The total is " \o ToStr(value) \o "."
    ELSE IF Includes(key, "AVG(")
    THEN "The average is " \o ToStr(value) \o "."
    ELSE IF Includes(key, "COUNT(") THEN "The count is " \o ToStr(value) \o "."
    ELSE "Result: " \o key \o " = " \o ToStr(value)

\* The single-row, single-column sentence with the generic sentence leaving
\* out the column name.
SingleValue_bareValue(key, value) ==
    IF value.t \in {"null", "undefined"} THEN "No data available."
    ELSE IF Includes(key, "SUM(") THEN "The total is " \o ToStr(value) \o "."
    ELSE IF Includes(key, "AVG(")
    THEN "The average is " \o ToFixed2(ParseFloat(value)) \o "."
    ELSE IF Includes(key, "COUNT(") THEN "The count is " \o ToStr(value) \o "."
    ELSE "Result: " \o ToStr(value)

\* The single-row, single-column sentence with the null test after the
\* aggregate templates.
SingleValue_nullLast(key, value) ==
    IF Includes(key, "SUM(") THEN "The total is " \o ToStr(value) \o "."
    ELSE IF Includes(key, "AVG(")
    THEN "The average is " \o ToFixed2(ParseFloat(value)) \o "."
    ELSE IF Includes(key, "COUNT(") THEN "The count is " \o ToStr(value) \o "."
    ELSE IF value.t \in {"null", "undefined"} THEN "No data available."
    ELSE "Result: " \o key \o " = " \o ToStr(value)

\* The single-row, single-column sentence.
SingleValue(key, value) ==
    IF value.t \in {"null", "undefined"} THEN "No data available."
    ELSE IF Includes(key, "SUM(") THEN "The total is " \o ToStr(value) \o "."
    ELSE IF Includes(key, "AVG(")
    THEN "The average is " \o ToFixed2(ParseFloat(value)) \o "."
    ELSE IF Includes(key, "COUNT(") THEN "The count is " \o ToStr(value) \o "."
    ELSE "Result: " \o key \o " = " \o ToStr(value)

formatSimple(results, userQuery) ==
    IF Len(results) = 0 THEN "No results found."
    ELSE IF Len(results) = 1
    THEN LET row == results[1]
             keys == Keys(row)
         IN IF Len(keys) = 1 THEN SingleValue(keys[1], Get(row, keys[1]))
            ELSE SentenceOrDump(row)
    ELSE formatTable(results)

-----------------------------------------------------------------------------
(* formatResponse *)

NO_DATA_MESSAGE ==
    "I couldn't find any data matching your question. This could be because:\n"
    \o "- The player name might be spelled differently\n"
    \o "- The year might not be in our dataset (we have data from 2018-2024)\n"
    \o "- The team abbreviation might need adjustment (e.g., SEA for Seattle, NYA for Yankees, WAS for Nationals)\n"
    \o "\n"
    \o "Would you like to try rephrasing your question?"

\* Shortest trimmed answer formatResponse accepts from the model.
MIN_ANSWER_LENGTH == 10

\* The emptiness test with its comparison off by one.
NoRows_negative(results) == Len(results) < 0

\* The emptiness test comparing the length with one.
NoRows_single(results) == Len(results) = 1

\* !results || results.length === 0
NoRows(results) == Len(results) = 0

\* The quality gate without the emptiness test and with a threshold of zero.
Degenerate_zero(answer) == Len(answer) < 0

\* The quality gate rejecting an answer of exactly ten characters.
Degenerate_inclusive(answer) ==
    answer = "" \/ Len(answer) <= MIN_ANSWER_LENGTH

\* !answer || answer.length < 10
Degenerate(answer) == answer = "" \/ Len(answer) < MIN_ANSWER_LENGTH

\* formatResponse without its catch block: a rejection of ai.run propagates.
ComposeFromReply_rethrow(reply, results, userQuery) ==
    IF reply.kind = "throw" THEN [threw |-> TRUE, error |-> reply.error]
    ELSE IF ResponseText(reply.value).threw
    THEN [threw |-> TRUE, error |-> ResponseText(reply.value).error]
    ELSE IF Degenerate(Trim(ResponseText(reply.value).text))
    THEN [threw |-> FALSE, branch |-> "fallback",
          text |-> formatSimple(results, userQuery)]
    ELSE [threw |-> FALSE, branch |-> "model",
          text |-> Trim(ResponseText(reply.value).text)]

\* The try/catch of formatResponse from the point where the second ai.run
\* settles with `reply`: the branch taken and the string returned.
ComposeFromReply(reply, results, userQuery) ==
    IF reply.kind = "throw" \/ ResponseText(reply.value).threw
    THEN [threw |-> FALSE, branch |-> "fallback",
          text |-> formatSimple(results, userQuery)]
    ELSE IF Degenerate(Trim(ResponseText(reply.value).text))
    THEN [threw |-> FALSE, branch |-> "fallback",
          text |-> formatSimple(results, userQuery)]
    ELSE [threw |-> FALSE, branch |-> "model",
          text |-> Trim(ResponseText(reply.value).text)]

-----------------------------------------------------------------------------
(* Responses *)

SYSTEM_PROMPT ==
    "You are a baseball statistics assistant that translates user questions into SQL queries."

SUMMARY_SYSTEM_PROMPT ==
    "You are a helpful baseball statistics assistant. Answer questions clearly and concisely based on the data provided."

MODEL == "@cf/meta/llama-3.3-70b-instruct-fp8-fast"

HTML_CONTENT == "<!DOCTYPE html>"

NoResponse == [status |-> 0]

\* jsonResponse without the cross-origin header.
jsonResponse_sameOrigin(data, status) ==
    [status |-> status,
     headers |-> ("Content-Type" :> "application/json"),
     body |-> data]

\* jsonResponse(data, status)
jsonResponse(data, status) ==
    [status |-> status,
     headers |-> ("Content-Type" :> "application/json")
                 @@ ("Access-Control-Allow-Origin" :> "*"),
     body |-> data]

\* The response to OPTIONS (lines 49-57): no body, three CORS headers.
PreflightResponse ==
    [status |-> 200,
     headers |-> ("Access-Control-Allow-Origin" :> "*")
                 @@ ("Access-Control-Allow-Methods" :> "GET, POST, OPTIONS")
                 @@ ("Access-Control-Allow-Headers" :> "Content-Type"),
     body |-> Null]

\* The page served for / and /index.html (lines 96-100).
HtmlResponse ==
    [status |-> 200, headers |-> ("Content-Type" :> "text/html"),
     body |-> Str(HTML_CONTENT)]

\* new Response('Not found', { status: 404 })
NotFoundResponse ==
    [status |-> 404, headers |-> <<>>, body |-> Str("Not found")]

\* The catch block of fetch.
ErrorResponse(error) ==
    jsonResponse([success |-> FALSE,
                  error |-> IF error.message # "" THEN error.message
                            ELSE "An error occurred"], 500)

\* The 200 response carrying the rows in reverse order.
SuccessResponse_reversed(text, sql, rows) ==
    jsonResponse([success |-> TRUE, message |-> text, sql |-> sql,
                  results |-> [i \in 1..Len(rows) |-> rows[Len(rows) + 1 - i]]],
                 200)

\* The 200 response of fetch.
SuccessResponse(text, sql, rows) ==
    jsonResponse([success |-> TRUE, message |-> text, sql |-> sql,
                  results |-> rows], 200)

\* The guard without its typeof test.
InvalidMessage_untyped(m) == ~Truthy(m)

\* The guard testing the trimmed message.
InvalidMessage_blank(m) == ~Truthy(m) \/ m.t # "str" \/ Trim(m.s) = ""

\* !message || typeof message !== 'string'
InvalidMessage(m) == ~Truthy(m) \/ m.t # "str"

\* The messages generateSQL hands to ai.run.
SynthesisCall(userQuery) ==
    [site |-> "synthesis", model |-> MODEL,
     messages |-> <<[role |-> "system", content |-> SYSTEM_PROMPT],
                    [role |-> "user", content |-> userQuery]>>,
     temperature |-> 1, max_tokens |-> 500]

\* The messages formatResponse hands to ai.run.  The prompt is kept as the
\* three texts the template embeds; temperatures are in tenths.
SummaryCall(userQuery, results, sql) ==
    [site |-> "summary", model |-> MODEL,
     messages |-> <<[role |-> "system", content |-> SUMMARY_SYSTEM_PROMPT],
                    [role |-> "user",
                     content |-> [question |-> userQuery, sql |-> sql,
                                  results |-> results]]>>,
     temperature |-> 3, max_tokens |-> 300]

-----------------------------------------------------------------------------
(* Inputs: requests and the replies of the two collaborators *)

Questions == {"", " ", "Who won?"}

\* What the `message` property of a JSON body can hold.
MessageValues ==
    {Null, Num(0), Num(500), Bool(FALSE), Bool(TRUE), Arr, Obj(<<>>)}
    \cup {Str(q) : q \in Questions}

\* What request.json() yields: a SyntaxError for a body that is not JSON,
\* the parsed value otherwise.
Bodies ==
    {[kind |-> "unparseable"]}
    \cup {[kind |-> "json", value |-> v] :
            v \in {Null, Num(500), Str("Who won?"), Arr, Obj(<<>>),
                   Obj(<<[k |-> "msg", v |-> Str("Who won?")]>>)}}
    \cup {[kind |-> "json", value |-> Obj(<<[k |-> "message", v |-> m]>>)] :
            m \in MessageValues}

NoBody == [kind |-> "unparseable"]

Methods == {"OPTIONS", "GET", "POST", "PUT"}

Paths == {"/api/chat", "/", "/index.html", "/other"}

\* Only POST /api/chat reads its body.
Requests ==
    {[method |-> "POST", path |-> "/api/chat", body |-> b] : b \in Bodies}
    \cup {[method |-> m, path |-> p, body |-> NoBody] :
            m \in Methods, p \in Paths}

Throw(msg) == [kind |-> "throw", error |-> Error("Error", msg)]

Return(value) == [kind |-> "return", value |-> value]

Completion(text) == Return(Obj(<<[k |-> "response", v |-> text]>>))

\* Texts the model may return as SQL.
SqlTexts ==
    {"", "SELECT SUM(W) FROM teams", "  SELECT SUM(W) FROM teams;\n",
     Fence \o "sql\nSELECT SUM(W) FROM teams\n" \o Fence,
     "DELETE FROM pitching"}

\* How the ai.run of generateSQL may settle.
SynthesisReplies ==
    {Throw("AI timeout"), Throw(""), Return(Null), Return(Obj(<<>>)),
     Completion(Num(500))}
    \cup {Completion(Str(t)) : t \in SqlTexts}

\* Texts the model may return as a summary.
SummaryTexts ==
    {"", "   ", "94 wins.", " 123456789 ", "1234567890",
     "  The Yankees won 94 games in 2024.\n"}

\* How the ai.run of formatResponse may settle.
SummaryReplies ==
    {Throw("AI timeout"), Return(Null), Return(Obj(<<>>)),
     Completion(Null), Completion(Num(500))}
    \cup {Completion(Str(t)) : t \in SummaryTexts}

Row1(k, v) == Obj(<<[k |-> k, v |-> v]>>)

Row2(k1, v1, k2, v2) == Obj(<<[k |-> k1, v |-> v1], [k |-> k2, v |-> v2]>>)

Row3(k1, v1, k2, v2, k3, v3) ==
    Obj(<<[k |-> k1, v |-> v1], [k |-> k2, v |-> v2], [k |-> k3, v |-> v3]>>)

\* The rows a statement may yield, grouped by the statement's column list:
\* all rows of one D1 result have the same columns.
Tables ==
    { {Row1("SUM(W)", Num(9400)), Row1("SUM(W)", Null)},
      {Row1("AVG(ERA)", Num(350)), Row1("AVG(ERA)", Null)},
      {Row1("COUNT(*)", Num(0)), Row1("COUNT(*)", Num(1200))},
      {Row1("SUM(W)/COUNT(*)", Num(8150))},
      {Row1("COUNT(*)+AVG(W)", Num(11100))},
      {Row1("name", Str("Seattle Mariners")), Row1("name", Str("")),
       Row1("name", Null)},
      {Row3("nameFirst", Str("Jacob"), "nameLast", Str("deGrom"),
            "ERA", Num(254)),
       Row3("nameFirst", Str("Max"), "nameLast", Null, "ERA", Null),
       Row3("nameFirst", Str("Max"), "nameLast", Str("Scherzer"),
            "ERA", Null)},
      {Row2("yearID", Num(201900), "W", Num(1100)),
       Row2("yearID", Num(0), "W", Null)},
      {Row2("teamID", Str("SEA"), "L", Num(9400)),
       Row2("teamID", Null, "L", Num(-150))},
      {Obj(<<>>)} }

SeqsUpTo(S, n) == UNION {[1..k -> S] : k \in 0..n}

\* The row lists db.prepare(sql).all() may resolve to.
ResultSets == UNION {SeqsUpTo(T, MaxRows) : T \in Tables}

\* How db.prepare(sql).all() may settle: an engine error, a result without
\* a row list, or a row list.
DbReplies ==
    {Throw("no such column: X"), Throw("near \"FROM\": syntax error")}
    \cup {[kind |-> "return", hasResults |-> FALSE, results |-> <<>>]}
    \cup {[kind |-> "return", hasResults |-> TRUE, results |-> rows] :
            rows \in ResultSets}

\* The three tables the seeding script creates.
EntityNames == {"people", "teams", "pitching"}

\* The database as seeded: each table with the primary keys of its rows.
InitialDataset ==
    [people |-> {"degroja01"}, teams |-> {"2024/NYA"},
     pitching |-> {"degroja01/2019/NYN/1"}]

\* The table a statement of the form DELETE FROM <table>; names, "" for any
\* other statement.
DeleteTarget(sql) ==
    IF StartsWith(sql, "DELETE FROM ") /\ EndsWith(sql, ";")
    THEN SubSeq(sql, Len("DELETE FROM ") + 1, Len(sql) - 1)
    ELSE ""

\* What db.prepare(sql).all() does to the database when it succeeds: D1 runs
\* whatever statement it is given, so a DELETE removes the rows of its table.
EngineEffect(sql, ds) ==
    IF DeleteTarget(sql) \in DOMAIN ds
    THEN [ds EXCEPT ![DeleteTarget(sql)] = {}]
    ELSE ds

\* How db.prepare(sql).all() may settle for the statement it was given: a
\* DELETE yields no rows.
DbRepliesFor(sql) ==
    IF DeleteTarget(sql) \in EntityNames
    THEN {Throw("no such column: X"),
          [kind |-> "return", hasResults |-> TRUE, results |-> <<>>]}
    ELSE DbReplies

-----------------------------------------------------------------------------
(* scripts/seed_d1.ts *)

\* parseCSV on the content of a file: the first line names the columns, every
\* further line is one row; a missing value is ''.
ParseCSV(content) ==
    LET lines == Split(Trim(content), "\n")
        cells(line) == LET parts == Split(line, ",")
                       IN [i \in 1..Len(parts) |-> Trim(parts[i])]
        headers == cells(lines[1])
        last(h) == CHOOSE i \in 1..Len(headers) :
                      /\ headers[i] = h
                      /\ \A j \in (i + 1)..Len(headers) : headers[j] # h
    IN [n \in 1..(Len(lines) - 1) |->
          [h \in {headers[i] : i \in 1..Len(headers)} |->
              IF last(h) <= Len(cells(lines[n + 1]))
              THEN cells(lines[n + 1])[last(h)] ELSE ""]]

\* s is a decimal numeral: sign, digits, and a fraction, at least one digit.
IsNumeral(s) ==
    LET u == IF StartsWith(s, "-") \/ StartsWith(s, "+") THEN Drop(s, 1) ELSE s
        n == DigitPrefix(u)
        rest == Drop(u, n)
        m == IF StartsWith(rest, ".") THEN DigitPrefix(Drop(rest, 1)) ELSE 0
    IN /\ n + m > 0
       /\ rest = "" \/ (StartsWith(rest, ".") /\ Len(rest) = m + 1)

\* !isNaN(parseFloat(value)) && isFinite(Number(value)), on the decimal
\* numerals and names the CSV files hold.
IsNumber(value) == ParseFloatStr(value).t = "num" /\ IsNumeral(value)

\* One value of an INSERT statement (lines 40-48).
SqlValue(row, col) ==
    LET value == IF col \in DOMAIN row THEN row[col] ELSE ""
    IN IF value = "" THEN "NULL"
       ELSE IF IsNumber(value) THEN value
       ELSE "'" \o EscapeQuotes(value) \o "'"

\* generateInserts(tableName, rows, columns): one statement per row, in the
\* order of the rows.
generateInserts(tableName, rows, columns) ==
    [n \in 1..Len(rows) |->
        "INSERT INTO " \o tableName \o " (" \o Join(columns, ", ")
        \o ") VALUES ("
        \o Join([i \in 1..Len(columns) |-> SqlValue(rows[n], columns[i])], ", ")
        \o ");"]

PeopleColumns == <<"playerID", "nameFirst", "nameLast">>

TeamsColumns ==
    <<"yearID", "lgID", "teamID", "franchID", "divID", "name", "G", "W", "L">>

PitchingColumns ==
    <<"playerID", "yearID", "stint", "teamID", "lgID", "W", "L", "G", "GS",
      "SV", "IPouts", "H", "ER", "HR", "BB", "SO", "ERA">>

CREATE_PEOPLE ==
    "CREATE TABLE people (\n    playerID TEXT PRIMARY KEY,\n"
    \o "    nameFirst TEXT,\n    nameLast TEXT\n);"

CREATE_TEAMS ==
    "CREATE TABLE teams (\n    yearID INTEGER,\n    lgID TEXT,\n"
    \o "    teamID TEXT,\n    franchID TEXT,\n    divID TEXT,\n"
    \o "    name TEXT,\n    G INTEGER,\n    W INTEGER,\n    L INTEGER,\n"
    \o "    PRIMARY KEY (yearID, teamID)\n);"

CREATE_PITCHING ==
    "CREATE TABLE pitching (\n    playerID TEXT,\n    yearID INTEGER,\n"
    \o "\tstint INTEGER,\n    teamID TEXT,\n    lgID TEXT,\n"
    \o "    W INTEGER,\n    L INTEGER,\n    G INTEGER,\n    GS INTEGER,\n"
    \o "    SV INTEGER,\n    IPouts INTEGER,\n    H INTEGER,\n"
    \o "    ER INTEGER,\n    HR INTEGER,\n    BB INTEGER,\n"
    \o "    SO INTEGER,\n    ERA REAL,\n"
    \o "\tPRIMARY KEY (playerID, yearID, teamID, stint),\n"
    \o "    FOREIGN KEY (playerID) REFERENCES people(playerID)\n);"

\* The sql array main() writes with pitching filled before people.
SeedStatements_pitchingFirst(peopleData, teamsData, pitchingData) ==
    <<"DROP TABLE IF EXISTS pitching;", "DROP TABLE IF EXISTS teams;",
      "DROP TABLE IF EXISTS people;", "",
      CREATE_PEOPLE, "", CREATE_TEAMS, "", CREATE_PITCHING, "",
      "-- Insert pitching">>
    \o generateInserts("pitching", pitchingData, PitchingColumns)
    \o <<"", "-- Insert teams">>
    \o generateInserts("teams", teamsData, TeamsColumns)
    \o <<"", "-- Insert people">>
    \o generateInserts("people", peopleData, PeopleColumns)

\* The sql array main() builds (lines 77-180).
SeedStatements(peopleData, teamsData, pitchingData) ==
    <<"DROP TABLE IF EXISTS pitching;", "DROP TABLE IF EXISTS teams;",
      "DROP TABLE IF EXISTS people;", "",
      CREATE_PEOPLE, "", CREATE_TEAMS, "", CREATE_PITCHING, "",
      "-- Insert people">>
    \o generateInserts("people", peopleData, PeopleColumns)
    \o <<"", "-- Insert teams">>
    \o generateInserts("teams", teamsData, TeamsColumns)
    \o <<"", "-- Insert pitching">>
    \o generateInserts("pitching", pitchingData, PitchingColumns)

\* The script is not running.
SeedIdle ==
    [pc |-> "idle", files |-> [people |-> "", teams |-> "", pitching |-> ""],
     sql |-> <<>>, out |-> ""]

\* A CSV file: the header line and the data lines, with a final newline.
CsvFile(header, lines) ==
    header \o "\n" \o Join(lines, "\n") \o (IF lines = <<>> THEN "" ELSE "\n")

PeopleLines ==
    {"degroja01,1988,Jacob,deGrom", "oneilpa01,1963,Paul,O'Neill"}

TeamsLines ==
    {"2024,AL,NYA,NYY,E,New York Yankees,162,94,68",
     "2019,AL,SEA,SEA,W,Seattle Mariners,162,68,94"}

PitchingLines ==
    {"degroja01,2019,1,NYN,NL,11,8,32,32,0,612,154,55,19,44,255,2.43",
     "oneilpa01,2019,1,NYA,AL,0,0,1,0,0,0,0,0,0,0,0,"}

\* The three files of the data directory.
SeedFiles ==
    {[people |-> CsvFile("playerID,birthYear,nameFirst,nameLast", p),
      teams |-> CsvFile("yearID,lgID,teamID,franchID,divID,name,G,W,L", t),
      pitching |-> CsvFile("playerID,yearID,stint,teamID,lgID,W,L,G,GS,SV,"
                           \o "IPouts,H,ER,HR,BB,SO,ERA", q)] :
        p \in SeqsUpTo(PeopleLines, MaxCsvRows),
        t \in SeqsUpTo(TeamsLines, MaxCsvRows),
        q \in SeqsUpTo(PitchingLines, MaxCsvRows)}

\* main() up to `await import('fs')`: the files are read and parsed and the
\* sql array is built.
SeedMain ==
    /\ seed.pc = "start"
    /\ seed' = [seed EXCEPT
                  !.pc = "import",
                  !.sql = SeedStatements(ParseCSV(seed.files.people),
                                         ParseCSV(seed.files.teams),
                                         ParseCSV(seed.files.pitching))]
    /\ UNCHANGED <<request, pc, message, sqlQuery, queryResults, response,
                   inflight, aiCalls, dbCalls, events, branch, replies,
                   dataset, page>>

\* The rest of main(): seed.sql is written.
SeedWrite ==
    /\ seed.pc = "import"
    /\ seed' = [seed EXCEPT !.pc = "written", !.out = Join(seed.sql, "\n")]
    /\ UNCHANGED <<request, pc, message, sqlQuery, queryResults, response,
                   inflight, aiCalls, dbCalls, events, branch, replies,
                   dataset, page>>

-----------------------------------------------------------------------------
(* The chat page: the script of HTML_CONTENT, in its two versions *)

\* The two versions of the page in the repository.
PageSources == {"src/workers/agent.ts", "src/unnamed/part_000"}

WELCOME == "Welcome! Ask me anything about MLB pitching statistics from 2018-2024."

\* The page after its script ran: part_000 shows the welcome hero with the
\* example buttons in it, agent.ts starts with a welcome message.
PageLoaded(src) ==
    [src |-> src,
     input |-> "",
     inputDisabled |-> FALSE,
     sendDisabled |-> FALSE,
     sendLabel |-> "Send",
     hero |-> (src = "src/unnamed/part_000"),
     loading |-> FALSE,
     log |-> IF src = "src/workers/agent.ts"
             THEN <<[user |-> FALSE, text |-> WELCOME]>> ELSE <<>>,
     calls |-> [c \in 1..MaxSends |-> "none"]]

\* What the user may have typed into the input.
InputTexts == {"", " ", "Who led in ERA?"}

\* The texts of the example buttons.
ExampleTexts ==
    {"Who had the lowest ERA in 2023?",
     "Show top 5 strikeout leaders for SEA in 2019"}

\* What `await fetch(...)` and `await response.json()` can settle to.
FetchOutcomes == {Return("response"), Throw("Failed to fetch")}

JsonOutcomes ==
    {Return([success |-> TRUE, text |-> "Jacob deGrom: 2.43 ERA"]),
     Return([success |-> FALSE, text |-> "Internal server error"]),
     Throw("Unexpected end of JSON input")}

\* The calls of the page that are started and not settled.
InFlight(p) == {c \in 1..MaxSends : p.calls[c] \in {"fetch", "json"}}

\* addMessage / appendUserMessage / appendAIMessage.
addMessage(p, text, isUser) ==
    [p EXCEPT !.log = Append(@, [user |-> isUser, text |-> text])]

\* sendMessage(message) up to its first await; given is message, "" when the
\* function is called without an argument.
Begin(p, given) ==
    LET msg == IF given # "" THEN given ELSE Trim(p.input)
        c == CHOOSE c \in 1..MaxSends :
                /\ p.calls[c] = "none"
                /\ \A d \in 1..(c - 1) : p.calls[d] # "none"
        shown == addMessage(p, msg, TRUE)
    IN IF Len(msg) = 0 THEN p
       ELSE [shown EXCEPT
               !.hero = FALSE,
               !.input = IF given = "" THEN "" ELSE @,
               !.inputDisabled = (p.src = "src/unnamed/part_000"),
               !.sendDisabled = TRUE,
               !.sendLabel = IF p.src = "src/workers/agent.ts"
                             THEN "Thinking..." ELSE @,
               !.loading = (p.src = "src/unnamed/part_000"),
               !.calls[c] = "fetch"]

\* The finally block of sendMessage.
Finally(p, c) ==
    [p EXCEPT !.inputDisabled = FALSE,
              !.sendDisabled = FALSE,
              !.sendLabel = "Send",
              !.calls[c] = "done"]

\* The catch block of sendMessage, then finally.
Caught(p, c, error) ==
    LET text == IF p.src = "src/workers/agent.ts"
                THEN "Error: " \o error
                ELSE "Sorry, something went wrong. (" \o error \o ")"
    IN Finally(addMessage([p EXCEPT !.loading = FALSE], text, FALSE), c)

\* The rest of the try block once response.json() resolved, then finally.
Shown(p, c, data) ==
    LET text == IF data.success THEN data.text ELSE "Error: " \o data.text
    IN Finally(addMessage([p EXCEPT !.loading = FALSE], text, FALSE), c)

worker == <<request, pc, message, sqlQuery, queryResults, response,
            inflight, aiCalls, dbCalls, events, branch, replies, dataset>>

\* Some call is left for the page to issue.
CanSend == \E c \in 1..MaxSends : page.calls[c] = "none"

\* The user edits the input, which a disabled input does not allow.
TypeText ==
    /\ ~page.inputDisabled
    /\ \E text \in InputTexts : page' = [page EXCEPT !.input = text]
    /\ UNCHANGED <<worker, seed>>

\* A click on the send button; a disabled button fires no click.
ClickSend ==
    /\ ~page.sendDisabled
    /\ CanSend
    /\ page' = Begin(page, "")
    /\ UNCHANGED <<worker, seed>>

\* The Enter key in the input; a disabled input receives no key.
PressEnter ==
    /\ ~page.inputDisabled
    /\ CanSend
    /\ page' = Begin(page, "")
    /\ UNCHANGED <<worker, seed>>

\* A click on an example button: the buttons are never disabled, and in
\* part_000 they are inside the welcome hero, hidden by the first message.
ClickExample ==
    /\ page.src = "src/workers/agent.ts" \/ page.hero
    /\ CanSend
    /\ \E text \in ExampleTexts : page' = Begin(page, text)
    /\ UNCHANGED <<worker, seed>>

\* `await fetch('/api/chat', ...)` settles.
PageFetchSettles ==
    /\ \E c \in 1..MaxSends, outcome \in FetchOutcomes :
          /\ page.calls[c] = "fetch"
          /\ page' = IF outcome.kind = "throw"
                     THEN Caught(page, c, outcome.error.message)
                     ELSE [page EXCEPT !.calls[c] = "json"]
    /\ UNCHANGED <<worker, seed>>

\* `await response.json()` settles.
PageJsonSettles ==
    /\ \E c \in 1..MaxSends, outcome \in JsonOutcomes :
          /\ page.calls[c] = "json"
          /\ page' = IF outcome.kind = "throw"
                     THEN Caught(page, c, outcome.error.message)
                     ELSE Shown(page, c, outcome.value)
    /\ UNCHANGED <<worker, seed>>

-----------------------------------------------------------------------------
(* The fetch handler *)

\* `const { message } = await request.json()`: a SyntaxError for a body
\* that is not JSON, a TypeError when the parsed value is null (it cannot be
\* destructured), the `message` property of the value otherwise.
ParseBody(body) ==
    IF body.kind = "unparseable"
    THEN [threw |-> TRUE,
          error |-> Error("SyntaxError", "Unexpected token in JSON")]
    ELSE IF body.value.t \in {"null", "undefined"}
    THEN [threw |-> TRUE,
          error |-> Error("TypeError", "Cannot destructure property 'message' of "
                            \o "'(intermediate value)' as it is " \o body.value.t
                            \o ".")]
    ELSE [threw |-> FALSE, message |-> Get(body.value, "message")]

NoReply == [kind |-> "none"]

NoReplies == [synthesis |-> NoReply, db |-> NoReply, summary |-> NoReply]

Requests1 == {1}

Init ==
    /\ request \in [Requests1 -> Requests]
    /\ pc = [r \in Requests1 |-> "start"]
    /\ message = [r \in Requests1 |-> Undefined]
    /\ sqlQuery = [r \in Requests1 |-> ""]
    /\ queryResults = [r \in Requests1 |-> <<>>]
    /\ response = [r \in Requests1 |-> NoResponse]
    /\ inflight = [r \in Requests1 |-> {}]
    /\ aiCalls = [r \in Requests1 |-> <<>>]
    /\ dbCalls = [r \in Requests1 |-> <<>>]
    /\ events = [r \in Requests1 |-> <<>>]
    /\ branch = [r \in Requests1 |-> "none"]
    /\ replies = [r \in Requests1 |-> NoReplies]
    /\ dataset = InitialDataset
    /\ seed = SeedIdle
    /\ page = PageLoaded("src/workers/agent.ts")

\* fetch resolves to resp.
Finish(r, resp) ==
    /\ response' = [response EXCEPT ![r] = resp]
    /\ pc' = [pc EXCEPT ![r] = "done"]

\* An outbound call starts: it is recorded as in flight.
Started(r, call) ==
    /\ inflight' = [inflight EXCEPT ![r] = @ \cup {call}]
    /\ events' = [events EXCEPT ![r] = Append(@, <<call, "start">>)]

\* An outbound call settles and nothing else starts.
Settled(r, call) ==
    /\ inflight' = [inflight EXCEPT ![r] = @ \ {call}]
    /\ events' = [events EXCEPT ![r] = Append(@, <<call, "end">>)]

\* An outbound call settles and the next one starts in the same turn.
SettledThenStarted(r, call, next) ==
    /\ inflight' = [inflight EXCEPT ![r] = (@ \ {call}) \cup {next}]
    /\ events' = [events EXCEPT
                    ![r] = Append(Append(@, <<call, "end">>), <<next, "start">>)]

\* fetch without its catch block: the exception leaves the handler and no
\* response is produced.
Catch_rethrow(r, error) ==
    /\ pc' = [pc EXCEPT ![r] = "threw"]
    /\ UNCHANGED response

\* The try/catch of fetch around the pipeline: an exception thrown inside the
\* try block is answered by the catch block.
Catch(r, error) == Finish(r, ErrorResponse(error))

\* The routing with the preflight answered only on the API path.
Route_preflightApiOnly(req) ==
    IF req.method = "OPTIONS" /\ req.path = "/api/chat" THEN "options"
    ELSE IF req.path = "/api/chat" /\ req.method = "POST" THEN "chat"
    ELSE IF req.path = "/" \/ req.path = "/index.html" THEN "html"
    ELSE "notfound"

\* The routing of fetch: which of its four return sites a request reaches.
Route(req) ==
    IF req.method = "OPTIONS" THEN "options"
    ELSE IF req.path = "/api/chat" /\ req.method = "POST" THEN "chat"
    ELSE IF req.path = "/" \/ req.path = "/index.html" THEN "html"
    ELSE "notfound"

\* fetch up to its first await: the routing of lines 49-61 and 96-102.
Fetch(r) ==
    /\ pc[r] = "start"
    /\ IF Route(request[r]) = "options"
       THEN Finish(r, PreflightResponse)
       ELSE IF Route(request[r]) = "chat"
       THEN /\ pc' = [pc EXCEPT ![r] = "json"]
            /\ UNCHANGED response
       ELSE IF Route(request[r]) = "html"
       THEN Finish(r, HtmlResponse)
       ELSE Finish(r, NotFoundResponse)
    /\ UNCHANGED outside
    /\ UNCHANGED <<dataset, request, message, sqlQuery, queryResults,
                   inflight, aiCalls, dbCalls, events, branch, replies>>

\* request.json() settles: the guard of lines 63-67, then generateSQL up to
\* its ai.run.
RequestJsonSettles(r) ==
    /\ pc[r] = "json"
    /\ LET parsed == ParseBody(request[r].body)
       IN IF parsed.threw
          THEN /\ Catch(r, parsed.error)
               /\ UNCHANGED <<message, inflight, aiCalls, events>>
          ELSE /\ message' = [message EXCEPT ![r] = parsed.message]
               /\ IF InvalidMessage(parsed.message)
                  THEN /\ Finish(r, jsonResponse([error |-> "Invalid message"],
                                                 400))
                       /\ UNCHANGED <<inflight, aiCalls, events>>
                  ELSE /\ aiCalls' = [aiCalls EXCEPT
                             ![r] = Append(@, SynthesisCall(ToStr(parsed.message)))]
                       /\ Started(r, "synthesis")
                       /\ pc' = [pc EXCEPT ![r] = "synthesis"]
                       /\ UNCHANGED response
    /\ UNCHANGED outside
    /\ UNCHANGED <<dataset, request, sqlQuery, queryResults, dbCalls, branch,
                   replies>>

\* fetch calling executeQuery without awaiting it: formatResponse receives
\* the pending promise and its ai.run starts while the statement runs.
SynthesisSettles_noAwait(r) ==
    /\ pc[r] = "synthesis"
    /\ \E reply \in SynthesisReplies :
         LET g == GenerateSQLResult(reply)
         IN /\ replies' = [replies EXCEPT ![r].synthesis = reply]
            /\ IF g.threw
               THEN /\ Settled(r, "synthesis")
                    /\ Catch(r, g.error)
                    /\ UNCHANGED <<sqlQuery, dbCalls, aiCalls>>
               ELSE /\ sqlQuery' = [sqlQuery EXCEPT ![r] = g.sql]
                    /\ dbCalls' = [dbCalls EXCEPT ![r] = Append(@, g.sql)]
                    /\ aiCalls' = [aiCalls EXCEPT
                          ![r] = Append(@, SummaryCall(ToStr(message[r]), <<>>,
                                                       g.sql))]
                    /\ inflight' = [inflight EXCEPT
                          ![r] = (@ \ {"synthesis"}) \cup {"db", "summary"}]
                    /\ events' = [events EXCEPT
                          ![r] = @ \o << <<"synthesis", "end">>,
                                         <<"db", "start">>,
                                         <<"summary", "start">> >>]
                    /\ pc' = [pc EXCEPT ![r] = "summary"]
                    /\ UNCHANGED response
    /\ UNCHANGED outside
    /\ UNCHANGED <<dataset, request, message, queryResults, branch>>

\* The ai.run of generateSQL settles: the rest of generateSQL, then
\* executeQuery up to db.prepare(sql).all().
SynthesisSettlesWith(r, reply) ==
    /\ pc[r] = "synthesis"
    /\ LET g == GenerateSQLResult(reply)
         IN /\ replies' = [replies EXCEPT ![r].synthesis = reply]
            /\ IF g.threw
               THEN /\ Settled(r, "synthesis")
                    /\ Catch(r, g.error)
                    /\ UNCHANGED <<sqlQuery, dbCalls>>
               ELSE /\ sqlQuery' = [sqlQuery EXCEPT ![r] = g.sql]
                    /\ dbCalls' = [dbCalls EXCEPT ![r] = Append(@, g.sql)]
                    /\ SettledThenStarted(r, "synthesis", "db")
                    /\ pc' = [pc EXCEPT ![r] = "db"]
                    /\ UNCHANGED response
    /\ UNCHANGED outside
    /\ UNCHANGED <<dataset, request, message, queryResults, aiCalls, branch>>

SynthesisSettles(r) ==
    \E reply \in SynthesisReplies : SynthesisSettlesWith(r, reply)

\* fetch retrying with a corrected statement: an engine error sends the
\* request back to generateSQL.
QuerySettlesWith_retry(r, reply) ==
    /\ pc[r] = "db"
    /\ reply \in DbRepliesFor(sqlQuery[r])
    /\ LET e == ExecuteQueryResult(reply)
       IN /\ replies' = [replies EXCEPT ![r].db = reply]
          /\ dataset' = IF reply.kind = "throw" THEN dataset
                        ELSE EngineEffect(sqlQuery[r], dataset)
          /\ IF e.threw
             THEN /\ aiCalls' = [aiCalls EXCEPT
                        ![r] = Append(@, SynthesisCall(ToStr(message[r])))]
                  /\ SettledThenStarted(r, "db", "synthesis")
                  /\ pc' = [pc EXCEPT ![r] = "synthesis"]
                  /\ UNCHANGED <<queryResults, response, branch>>
             ELSE /\ queryResults' = [queryResults EXCEPT ![r] = e.rows]
                  /\ IF NoRows(e.rows)
                     THEN /\ Settled(r, "db")
                          /\ branch' = [branch EXCEPT ![r] = "empty"]
                          /\ Finish(r, SuccessResponse(NO_DATA_MESSAGE,
                                                       sqlQuery[r], e.rows))
                          /\ UNCHANGED aiCalls
                     ELSE /\ aiCalls' = [aiCalls EXCEPT
                                ![r] = Append(@, SummaryCall(ToStr(message[r]),
                                                             e.rows,
                                                             sqlQuery[r]))]
                          /\ SettledThenStarted(r, "db", "summary")
                          /\ pc' = [pc EXCEPT ![r] = "summary"]
                          /\ UNCHANGED <<response, branch>>
    /\ UNCHANGED outside
    /\ UNCHANGED <<request, message, sqlQuery, dbCalls>>

\* db.prepare(sql).all() settles: the rest of executeQuery, then
\* formatResponse up to its ai.run, or to its return when there are no rows.
QuerySettlesWith(r, reply) ==
    /\ pc[r] = "db"
    /\ reply \in DbRepliesFor(sqlQuery[r])
    /\ LET e == ExecuteQueryResult(reply)
         IN /\ replies' = [replies EXCEPT ![r].db = reply]
            /\ dataset' = IF reply.kind = "throw" THEN dataset
                          ELSE EngineEffect(sqlQuery[r], dataset)
            /\ IF e.threw
               THEN /\ Settled(r, "db")
                    /\ Catch(r, e.error)
                    /\ UNCHANGED <<queryResults, aiCalls, branch>>
               ELSE /\ queryResults' = [queryResults EXCEPT ![r] = e.rows]
                    /\ IF NoRows(e.rows)
                       THEN /\ Settled(r, "db")
                            /\ branch' = [branch EXCEPT ![r] = "empty"]
                            /\ Finish(r, SuccessResponse(NO_DATA_MESSAGE,
                                                         sqlQuery[r], e.rows))
                            /\ UNCHANGED aiCalls
                       ELSE /\ aiCalls' = [aiCalls EXCEPT
                                  ![r] = Append(@, SummaryCall(ToStr(message[r]),
                                                               e.rows,
                                                               sqlQuery[r]))]
                            /\ SettledThenStarted(r, "db", "summary")
                            /\ pc' = [pc EXCEPT ![r] = "summary"]
                            /\ UNCHANGED <<response, branch>>
    /\ UNCHANGED outside
    /\ UNCHANGED <<request, message, sqlQuery, dbCalls>>

QuerySettles(r) == \E reply \in DbReplies : QuerySettlesWith(r, reply)

\* fetch keeping sqlQuery in a module-level variable: the response carries
\* the statement of whichever request assigned it last.
SummarySettlesWith_sharedSql(r, reply) ==
    /\ pc[r] = "summary"
    /\ LET c == ComposeFromReply(reply, queryResults[r], ToStr(message[r]))
       IN /\ replies' = [replies EXCEPT ![r].summary = reply]
          /\ Settled(r, "summary")
          /\ branch' = [branch EXCEPT ![r] = c.branch]
          /\ \E q \in DOMAIN pc :
               /\ sqlQuery[q] # ""
               /\ Finish(r, SuccessResponse(c.text, sqlQuery[q],
                                            queryResults[r]))
    /\ UNCHANGED outside
    /\ UNCHANGED <<dataset, request, message, sqlQuery, queryResults, aiCalls,
                   dbCalls>>

\* The ai.run of formatResponse settles: the rest of formatResponse and the
\* 200 response of fetch.
SummarySettlesWith(r, reply) ==
    /\ pc[r] = "summary"
    /\ LET c == ComposeFromReply(reply, queryResults[r], ToStr(message[r]))
         IN /\ replies' = [replies EXCEPT ![r].summary = reply]
            /\ Settled(r, "summary")
            /\ IF c.threw
               THEN /\ Catch(r, c.error)
                    /\ UNCHANGED branch
               ELSE /\ branch' = [branch EXCEPT ![r] = c.branch]
                    /\ Finish(r, SuccessResponse(c.text, sqlQuery[r],
                                                 queryResults[r]))
    /\ UNCHANGED outside
    /\ UNCHANGED <<dataset, request, message, sqlQuery, queryResults, aiCalls,
                   dbCalls>>

SummarySettles(r) ==
    \E reply \in SummaryReplies : SummarySettlesWith(r, reply)

\* The Worker receives its next request: a fresh invocation of fetch, which
\* starts with nothing of the previous one.
NextRequestWith(r, req) ==
    /\ pc[r] = "done"
    /\ request' = [request EXCEPT ![r] = req]
    /\ pc' = [pc EXCEPT ![r] = "start"]
    /\ message' = [message EXCEPT ![r] = Undefined]
    /\ sqlQuery' = [sqlQuery EXCEPT ![r] = ""]
    /\ queryResults' = [queryResults EXCEPT ![r] = <<>>]
    /\ response' = [response EXCEPT ![r] = NoResponse]
    /\ inflight' = [inflight EXCEPT ![r] = {}]
    /\ aiCalls' = [aiCalls EXCEPT ![r] = <<>>]
    /\ dbCalls' = [dbCalls EXCEPT ![r] = <<>>]
    /\ events' = [events EXCEPT ![r] = <<>>]
    /\ branch' = [branch EXCEPT ![r] = "none"]
    /\ replies' = [replies EXCEPT ![r] = NoReplies]
    /\ UNCHANGED <<dataset, outside>>

NextRequest(r) == \E req \in Requests : NextRequestWith(r, req)

Next ==
    \/ \E r \in DOMAIN pc : Fetch(r)
    \/ \E r \in DOMAIN pc : RequestJsonSettles(r)
    \/ \E r \in DOMAIN pc : SynthesisSettles(r)
    \/ \E r \in DOMAIN pc : QuerySettles(r)
    \/ \E r \in DOMAIN pc : SummarySettles(r)
    \/ \E r \in DOMAIN pc : NextRequest(r)

Spec == Init /\ [][Next]_vars

-----------------------------------------------------------------------------
(* Two requests in flight at once *)

\* The isolate runs the handlers of several requests interleaved at their
\* awaits.  This specification has two of them, over a reduced choice of
\* requests and replies.
Requests2 == {1, 2}

ConcRequests ==
    {[method |-> "POST", path |-> "/api/chat",
      body |-> [kind |-> "json",
                value |-> Obj(<<[k |-> "message", v |-> m]>>)]] :
        m \in {Str("Who won?"), Str(" "), Num(500)}}
    \cup {[method |-> "GET", path |-> "/", body |-> NoBody]}

ConcSynthesisReplies ==
    {Throw("AI timeout"),
     Completion(Str("SELECT SUM(W) FROM teams")),
     Completion(Str("DELETE FROM pitching"))}

ConcDbReplies ==
    {Throw("no such column: X"),
     [kind |-> "return", hasResults |-> TRUE, results |-> <<>>],
     [kind |-> "return", hasResults |-> TRUE,
      results |-> <<Row1("SUM(W)", Num(9400))>>],
     [kind |-> "return", hasResults |-> TRUE,
      results |-> <<Row1("COUNT(*)", Num(1200))>>]}

ConcSummaryReplies ==
    {Throw("AI timeout"), Completion(Str("94 wins.")),
     Completion(Str("  The Yankees won 94 games in 2024.\n"))}

\* The handlers of the requests ids, each given one of reqs, before they run.
InitOver(ids, reqs) ==
    /\ request \in [ids -> reqs]
    /\ pc = [r \in ids |-> "start"]
    /\ message = [r \in ids |-> Undefined]
    /\ sqlQuery = [r \in ids |-> ""]
    /\ queryResults = [r \in ids |-> <<>>]
    /\ response = [r \in ids |-> NoResponse]
    /\ inflight = [r \in ids |-> {}]
    /\ aiCalls = [r \in ids |-> <<>>]
    /\ dbCalls = [r \in ids |-> <<>>]
    /\ events = [r \in ids |-> <<>>]
    /\ branch = [r \in ids |-> "none"]
    /\ replies = [r \in ids |-> NoReplies]
    /\ dataset = InitialDataset

InitConc ==
    /\ InitOver(Requests2, ConcRequests)
    /\ seed = SeedIdle
    /\ page = PageLoaded("src/workers/agent.ts")

NextConc ==
    \/ \E r \in DOMAIN pc : Fetch(r)
    \/ \E r \in DOMAIN pc : RequestJsonSettles(r)
    \/ \E r \in DOMAIN pc :
         \E reply \in ConcSynthesisReplies : SynthesisSettlesWith(r, reply)
    \/ \E r \in DOMAIN pc :
         \E reply \in ConcDbReplies : QuerySettlesWith(r, reply)
    \/ \E r \in DOMAIN pc :
         \E reply \in ConcSummaryReplies : SummarySettlesWith(r, reply)
    \/ \E r \in DOMAIN pc :
         \E req \in ConcRequests : NextRequestWith(r, req)

SpecConc == InitConc /\ [][NextConc]_vars

-----------------------------------------------------------------------------
(* generateSQL over assembled texts *)

\* The pieces a model's SQL text is assembled from: backquotes alone and in
\* fences, the language tag, white space, the terminator and a statement.
SqlTokens == {Backquote, Fence, "sql", "\n", " ", ";", "SELECT 1"}

\* Every text of at most MaxSqlTokens pieces.
RawTexts == {Join(ts, "") : ts \in SeqsUpTo(SqlTokens, MaxSqlTokens)}

QuestionRequest ==
    [method |-> "POST", path |-> "/api/chat",
     body |-> [kind |-> "json",
               value |-> Obj(<<[k |-> "message", v |-> Str("Who won?")]>>)]]

InitSQL ==
    /\ InitOver(Requests1, {QuestionRequest})
    /\ seed = SeedIdle
    /\ page = PageLoaded("src/workers/agent.ts")

\* One question, answered by the model with each of the assembled texts, up
\* to the call of the database.
NextSQL ==
    \/ \E r \in DOMAIN pc : Fetch(r)
    \/ \E r \in DOMAIN pc : RequestJsonSettles(r)
    \/ \E r \in DOMAIN pc :
         \E raw \in RawTexts : SynthesisSettlesWith(r, Completion(Str(raw)))

SpecSQL == InitSQL /\ [][NextSQL]_vars

-----------------------------------------------------------------------------
(* The seed script run on its own *)

InitSeed ==
    /\ InitOver({}, {})
    /\ \E files \in SeedFiles : seed = [SeedIdle EXCEPT !.pc = "start",
                                                         !.files = files]
    /\ page = PageLoaded("src/workers/agent.ts")

NextSeed ==
    \/ SeedMain
    \/ SeedWrite

SpecSeed == InitSeed /\ [][NextSeed]_vars

-----------------------------------------------------------------------------
(* The chat page on its own *)

InitPage ==
    /\ InitOver({}, {})
    /\ seed = SeedIdle
    /\ \E src \in PageSources : page = PageLoaded(src)

NextPage ==
    \/ TypeText
    \/ ClickSend
    \/ PressEnter
    \/ ClickExample
    \/ PageFetchSettles
    \/ PageJsonSettles

SpecPage == InitPage /\ [][NextPage]_vars

-----------------------------------------------------------------------------
(* Properties *)

ChatRequest(r) ==
    request[r].method = "POST" /\ request[r].path = "/api/chat"

\* The body of r parsed to a JSON value other than null.
ParsedBody(r) ==
    /\ ChatRequest(r)
    /\ request[r].body.kind = "json"
    /\ request[r].body.value.t # "null"

\* The `message` property of the parsed body of r.
MessageOf(r) == Get(request[r].body.value, "message")

Range(seq) == {seq[i] : i \in 1..Len(seq)}

IsPrefix(s, t) == Len(s) <= Len(t) /\ s = SubSeq(t, 1, Len(s))

\* C1: a POST /api/chat whose JSON body has no message field, or a message
\* that is not a string, is answered 400, and at no point of the request has
\* the model endpoint or the database been called.
C1_BadMessageRejected ==
    \A r \in DOMAIN pc :
        (ParsedBody(r) /\ MessageOf(r).t # "str")
        => /\ pc[r] \in {"start", "json", "done"}
           /\ aiCalls[r] = <<>>
           /\ dbCalls[r] = <<>>
           /\ events[r] = <<>>
           /\ pc[r] = "done"
              => /\ response[r].status = 400
                 /\ response[r].body = [error |-> "Invalid message"]

C1_Witness ==
    \E r \in DOMAIN pc :
        /\ ParsedBody(r)
        /\ MessageOf(r) = Num(500)
        /\ pc[r] = "done"
        /\ response[r].status = 400

\* The body of r is not parseable JSON, or is JSON null.
Malformed(r) ==
    /\ ChatRequest(r)
    /\ \/ request[r].body.kind = "unparseable"
       \/ request[r].body.kind = "json" /\ request[r].body.value.t = "null"

\* C2: a malformed body on POST /api/chat (not parseable JSON, or JSON null)
\* is answered with status 400 and reaches neither the model nor the database.
C2_MalformedBodyIs400 ==
    \A r \in DOMAIN pc :
        (Malformed(r) /\ pc[r] = "done")
        => /\ response[r].status = 400
           /\ aiCalls[r] = <<>>
           /\ dbCalls[r] = <<>>

\* C3: every non-empty string message, whitespace-only included, passes the
\* guard: no 400 is returned and the pipeline starts with exactly one
\* synthesis call whose user message is the question unchanged; the empty
\* string is rejected with 400.
C3_NonEmptyAccepted ==
    \A r \in DOMAIN pc :
        (ParsedBody(r) /\ MessageOf(r).t = "str")
        => IF MessageOf(r).s # ""
           THEN /\ response[r].status # 400
                /\ pc[r] \notin {"start", "json"}
                   => /\ events[r][1] = <<"synthesis", "start">>
                      /\ aiCalls[r][1].site = "synthesis"
                      /\ aiCalls[r][1].messages[2]
                           = [role |-> "user", content |-> MessageOf(r).s]
                      /\ Cardinality({i \in 1..Len(aiCalls[r]) :
                                        aiCalls[r][i].site = "synthesis"}) = 1
           ELSE /\ aiCalls[r] = <<>>
                /\ pc[r] = "done" => response[r].status = 400

C3_Witness ==
    \E r \in DOMAIN pc :
        /\ ParsedBody(r)
        /\ MessageOf(r) = Str(" ")
        /\ response[r].status = 200

\* The only order in which one request starts and ends its outbound calls.
CallOrder ==
    << <<"synthesis", "start">>, <<"synthesis", "end">>,
       <<"db", "start">>, <<"db", "end">>,
       <<"summary", "start">>, <<"summary", "end">> >>

\* C4: within one request the calls happen in the order synthesis, database,
\* summarization; each starts only after the previous one has returned, and
\* no two of them are in flight together.
C4_StrictlySequential ==
    \A r \in DOMAIN pc :
        /\ IsPrefix(events[r], CallOrder)
        /\ Cardinality(inflight[r]) <= 1

C4_Witness == \E r \in DOMAIN pc : events[r] = CallOrder

\* The Query Executor returned to fetch, and returned no row.
ZeroRows(r) == replies[r].db.kind = "return" /\ queryResults[r] = <<>>

\* C5: when the Query Executor returns zero rows, no summarization call is
\* made, the fixed explanatory message is returned verbatim, and the request
\* has made exactly one model call.
C5_EmptyResultNoModelCall ==
    \A r \in DOMAIN pc :
        ZeroRows(r)
        => /\ pc[r] = "done"
           /\ response[r].status = 200
           /\ response[r].body.message = NO_DATA_MESSAGE
           /\ Len(aiCalls[r]) = 1
           /\ aiCalls[r][1].site = "synthesis"
           /\ <<"summary", "start">> \notin Range(events[r])

C5_Witness ==
    \E r \in DOMAIN pc :
        /\ ZeroRows(r)
        /\ replies[r].db.hasResults
        /\ response[r].status = 200

\* The summarization call threw.
SummaryThrew(r) == replies[r].summary.kind = "throw"

\* The summarization call returned a text whose trimmed length is below the
\* threshold.
SummaryShort(r) ==
    /\ replies[r].summary.kind = "return"
    /\ replies[r].summary.value.t = "obj"
    /\ Get(replies[r].summary.value, "response").t = "str"
    /\ Len(Trim(Get(replies[r].summary.value, "response").s))
         < MIN_ANSWER_LENGTH

\* The summarization call returned a value without a response text.
SummaryTextless(r) ==
    /\ replies[r].summary.kind = "return"
    /\ \/ replies[r].summary.value.t # "obj"
       \/ Get(replies[r].summary.value, "response").t # "str"

\* C6: a failure of the summarization step (the call throws, returns empty or
\* too-short text, or returns an object without a response text) is not
\* surfaced: the request ends with status 200 and success true, with the
\* message of the deterministic fallback formatter.
C6_SummaryFailureMasked ==
    \A r \in DOMAIN pc :
        (SummaryThrew(r) \/ SummaryShort(r) \/ SummaryTextless(r))
        => /\ pc[r] = "done"
           /\ response[r].status = 200
           /\ response[r].body.success
           /\ branch[r] = "fallback"
           /\ response[r].body.message
                = formatSimple(queryResults[r], ToStr(message[r]))

C6_Witness ==
    \E r \in DOMAIN pc :
        /\ SummaryTextless(r)
        /\ response[r].status = 200
        /\ response[r].body.message = "The total is 94."

\* C7: for every row sequence of length >= 1, when the summarization call
\* throws or returns text shorter than the threshold, the fallback formatter
\* returns a non-empty string.
C7_FallbackNonEmpty ==
    \A r \in DOMAIN pc :
        (Len(queryResults[r]) >= 1 /\ (SummaryThrew(r) \/ SummaryShort(r)))
        => /\ formatSimple(queryResults[r], ToStr(message[r])) # ""
           /\ response[r].status = 200 => Len(response[r].body.message) > 0

C7_Witness ==
    \E r \in DOMAIN pc :
        /\ SummaryThrew(r)
        /\ queryResults[r] = <<Row2("teamID", Str("SEA"), "L", Num(9400))>>
        /\ response[r].body.message = "{\"teamID\":\"SEA\",\"L\":94}"

\* C8: every 200 success response of POST /api/chat carries a non-empty
\* message, whichever of the three composer branches produced it.
C8_SuccessMessageNonEmpty ==
    \A r \in DOMAIN pc :
        (ChatRequest(r) /\ response[r].status = 200)
        => /\ response[r].body.success
           /\ branch[r] \in {"empty", "model", "fallback"}
           /\ Len(response[r].body.message) > 0

C8_Witness ==
    \E r \in DOMAIN pc :
        /\ ChatRequest(r)
        /\ response[r].status = 200
        /\ branch[r] = "model"
        /\ Len(response[r].body.message) = MIN_ANSWER_LENGTH

\* C9: if the synthesis model call fails, the request ends with status 500
\* and body {success: false, error}, the model endpoint has been called
\* exactly once, and the database and the summarization are never invoked.
C9_SynthesisFailureIs500 ==
    \A r \in DOMAIN pc :
        replies[r].synthesis.kind = "throw"
        => /\ pc[r] = "done"
           /\ response[r].status = 500
           /\ response[r].body
                = [success |-> FALSE,
                   error |-> IF replies[r].synthesis.error.message # ""
                             THEN replies[r].synthesis.error.message
                             ELSE "An error occurred"]
           /\ Len(aiCalls[r]) = 1
           /\ dbCalls[r] = <<>>
           /\ events[r] = << <<"synthesis", "start">>, <<"synthesis", "end">> >>

C9_Witness ==
    \E r \in DOMAIN pc :
        /\ replies[r].synthesis = Throw("AI timeout")
        /\ response[r].status = 500
        /\ response[r].body.error = "AI timeout"

\* C10: if the database engine raises an error, the request ends with status
\* 500 whose error text is the engine's message prefixed 'Database query
\* failed: ', the statement is executed exactly once, no summarization call is
\* made, and no rows are returned to the caller.
C10_QueryFailureIs500 ==
    \A r \in DOMAIN pc :
        replies[r].db.kind = "throw"
        => /\ pc[r] = "done"
           /\ response[r].status = 500
           /\ response[r].body
                = [success |-> FALSE,
                   error |-> "Database query failed: "
                               \o replies[r].db.error.message]
           /\ Len(dbCalls[r]) = 1
           /\ Len(aiCalls[r]) = 1
           /\ <<"summary", "start">> \notin Range(events[r])
           /\ "results" \notin DOMAIN response[r].body
           /\ queryResults[r] = <<>>

C10_Witness ==
    \E r \in DOMAIN pc :
        /\ replies[r].db = Throw("no such column: X")
        /\ response[r].status = 500
        /\ response[r].body.error = "Database query failed: no such column: X"

\* The positions of a running or finished handler; "threw" would be an
\* exception that left fetch.
HandlerPositions == {"start", "json", "synthesis", "db", "summary", "done"}

\* resp is one of the three JSON envelopes of POST /api/chat.
JsonEnvelope(resp) ==
    /\ resp.status \in {200, 400, 500}
    /\ resp.headers["Content-Type"] = "application/json"
    /\ resp.status = 200
         => /\ DOMAIN resp.body = {"success", "message", "sql", "results"}
            /\ resp.body.success = TRUE
    /\ resp.status = 400 => resp.body = [error |-> "Invalid message"]
    /\ resp.status = 500
         => /\ DOMAIN resp.body = {"success", "error"}
            /\ resp.body.success = FALSE
            /\ resp.body.error # ""

\* No step of the handler of r remains to be taken.
HandlerQuiescent(r) ==
    ~ENABLED (\/ Fetch(r) \/ RequestJsonSettles(r) \/ SynthesisSettles(r)
              \/ QuerySettles(r) \/ SummarySettles(r))

\* C11: every POST /api/chat request, whatever the model endpoint and the
\* database return or throw, ends with exactly one JSON response whose status
\* is 200, 400 or 500: no exception leaves the handler, a response exists
\* exactly when the handler has finished, it is one of the three envelopes,
\* and nothing of the handler runs after it.
C11_OneJsonResponse ==
    \A r \in DOMAIN pc :
        /\ pc[r] \in HandlerPositions
        /\ (pc[r] = "done") = (response[r] # NoResponse)
        /\ (ChatRequest(r) /\ pc[r] = "done")
             => /\ JsonEnvelope(response[r])
                /\ HandlerQuiescent(r)
                /\ inflight[r] = {}

C11_Witness ==
    \E r \in DOMAIN pc :
        /\ ChatRequest(r)
        /\ replies[r].synthesis = Return(Null)
        /\ pc[r] = "done"
        /\ response[r].status = 500
        /\ response[r].body.error
             = "Cannot read properties of null (reading 'response')"

\* The row sequence the engine returned to executeQuery for request r.
EngineRows(r) ==
    IF replies[r].db.hasResults THEN replies[r].db.results ELSE <<>>

\* C12: on success the response is 200 with success true, its sql field is
\* the one string passed to the database engine, which is the normalized
\* synthesizer output, and its results field is the row sequence the engine
\* returned, in the same order.
C12_SuccessEchoesSqlAndRows ==
    \A r \in DOMAIN pc :
        (ChatRequest(r) /\ response[r].status = 200)
        => /\ response[r].body.success = TRUE
           /\ dbCalls[r] = <<response[r].body.sql>>
           /\ replies[r].synthesis.kind = "return"
           /\ response[r].body.sql
                = NormalizeSQL(Get(replies[r].synthesis.value, "response").s)
           /\ replies[r].db.kind = "return"
           /\ response[r].body.results = EngineRows(r)

C12_Witness ==
    \E r \in DOMAIN pc :
        /\ ChatRequest(r)
        /\ response[r].status = 200
        /\ replies[r].synthesis
             = Completion(Str(Fence \o "sql\nSELECT SUM(W) FROM teams\n" \o Fence))
        /\ response[r].body.sql = "SELECT SUM(W) FROM teams;"
        /\ response[r].body.results
             = <<Row2("teamID", Null, "L", Num(-150)),
                 Row2("teamID", Str("SEA"), "L", Num(9400))>>
        /\ replies[r].db.results = response[r].body.results

\* C13: the three reference entities are never mutated by the pipeline: for
\* every sequence of requests and every text the model may return as SQL, the
\* dataset after the request equals the dataset before it.
C13_DatasetNeverMutated == dataset = InitialDataset

\* The response fetch gives request req when it runs alone and its outbound
\* calls settle as rep says.
ResponseAlone(req, rep) ==
    IF Route(req) = "options" THEN PreflightResponse
    ELSE IF Route(req) = "html" THEN HtmlResponse
    ELSE IF Route(req) = "notfound" THEN NotFoundResponse
    ELSE IF ParseBody(req.body).threw
    THEN ErrorResponse(ParseBody(req.body).error)
    ELSE IF InvalidMessage(ParseBody(req.body).message)
    THEN jsonResponse([error |-> "Invalid message"], 400)
    ELSE IF GenerateSQLResult(rep.synthesis).threw
    THEN ErrorResponse(GenerateSQLResult(rep.synthesis).error)
    ELSE IF ExecuteQueryResult(rep.db).threw
    THEN ErrorResponse(ExecuteQueryResult(rep.db).error)
    ELSE LET userQuery == ToStr(ParseBody(req.body).message)
             sql == GenerateSQLResult(rep.synthesis).sql
             rows == ExecuteQueryResult(rep.db).rows
         IN IF NoRows(rows) THEN SuccessResponse(NO_DATA_MESSAGE, sql, rows)
            ELSE SuccessResponse(ComposeFromReply(rep.summary, rows,
                                                  userQuery).text, sql, rows)

\* C14: requests are independent: for any interleaving of two concurrent
\* requests, the response of each is determined by its own request and the
\* replies to its own calls, and is the one it gets when it runs alone; the
\* calls it makes carry its own message and its own statement.
C14_RequestsIndependent ==
    \A r \in DOMAIN pc :
        /\ pc[r] = "done" => response[r] = ResponseAlone(request[r], replies[r])
        /\ \A i \in 1..Len(aiCalls[r]) :
             aiCalls[r][i].messages[2].content
                = IF aiCalls[r][i].site = "synthesis" THEN ToStr(MessageOf(r))
                  ELSE [question |-> ToStr(MessageOf(r)), sql |-> sqlQuery[r],
                        results |-> queryResults[r]]
        /\ \A i \in 1..Len(dbCalls[r]) : dbCalls[r][i] = sqlQuery[r]

\* Both requests were in flight together and ended with different answers.
C14_Witness ==
    /\ DOMAIN pc = Requests2
    /\ pc[1] = "done"
    /\ pc[2] = "summary"
    /\ Len(events[1]) = 4
    /\ SubSeq(events[2], 1, 3) = SubSeq(CallOrder, 1, 3)
    /\ response[1].status = 200
    /\ response[1].body.sql = "DELETE FROM pitching;"
    /\ sqlQuery[2] = "SELECT SUM(W) FROM teams;"
    /\ request[1] # request[2]

\* The fallback formatter answered r over exactly one row of one column.
SingleValueFallback(r) ==
    /\ branch[r] = "fallback"
    /\ Len(queryResults[r]) = 1
    /\ Len(Keys(queryResults[r][1])) = 1

TheKey(r) == Keys(queryResults[r][1])[1]

TheValue(r) == queryResults[r][1].fields[1].v

\* s is a decimal numeral with exactly two digits after the point.
TwoDecimalText(s) ==
    LET digits == IF StartsWith(s, "-") THEN Drop(s, 1) ELSE s
        n == Len(digits)
    IN /\ n >= 4
       /\ CharAt(digits, n - 2) = "."
       /\ \A i \in (1..n) \ {n - 2} : CharAt(digits, i) \in Digits

\* msg is prefix, then text, then a full stop.
Sentence(msg, prefix, text) == msg = prefix \o text \o "."

\* The text of msg between a prefix of length n and the final full stop.
Middle(msg, n) == SubSeq(msg, n + 1, Len(msg) - 1)

\* C15 as stated: a fallback over exactly one row with exactly one column
\* yields 'The total is {value}.' when the column name contains 'SUM(', the
\* value formatted to two decimals in 'The average is ....' when it contains
\* 'AVG(', and 'The count is {value}.' when it contains 'COUNT('.
C15_AsStated ==
    \A r \in DOMAIN pc :
        SingleValueFallback(r)
        => LET msg == response[r].body.message
           IN /\ Includes(TheKey(r), "SUM(")
                  => Sentence(msg, "The total is ", ToStr(TheValue(r)))
              /\ Includes(TheKey(r), "AVG(")
                  => /\ StartsWith(msg, "The average is ")
                     /\ TwoDecimalText(Middle(msg, Len("The average is ")))
              /\ Includes(TheKey(r), "COUNT(")
                  => Sentence(msg, "The count is ", ToStr(TheValue(r)))

\* C15: a fallback over exactly one row with exactly one column whose value
\* is not null yields 'The total is {value}.' when the column name contains
\* 'SUM('; otherwise 'The average is {value}.' with the value in two decimals
\* when it contains 'AVG('; otherwise 'The count is {value}.' when it
\* contains 'COUNT('.  A null value yields 'No data available.' whatever the
\* column name.  The row {"SUM(W)": 94} yields 'The total is 94.'.
C15_AggregateSentences ==
    \A r \in DOMAIN pc :
        SingleValueFallback(r)
        => LET msg == response[r].body.message
               key == TheKey(r)
               value == TheValue(r)
               sum == Includes(key, "SUM(")
               avg == ~sum /\ Includes(key, "AVG(")
               count == ~sum /\ ~avg /\ Includes(key, "COUNT(")
           IN /\ value.t = "null" => msg = "No data available."
              /\ (value.t = "num" /\ sum)
                  => /\ Sentence(msg, "The total is ", ToStr(value))
                     /\ ParseFloatStr(Middle(msg, Len("The total is "))) = value
              /\ (value.t = "num" /\ avg)
                  => /\ StartsWith(msg, "The average is ")
                     /\ EndsWith(msg, ".")
                     /\ TwoDecimalText(Middle(msg, Len("The average is ")))
                     /\ ParseFloatStr(Middle(msg, Len("The average is ")))
                          = value
              /\ (value.t = "num" /\ count)
                  => /\ Sentence(msg, "The count is ", ToStr(value))
                     /\ ParseFloatStr(Middle(msg, Len("The count is "))) = value
              /\ queryResults[r] = <<Row1("SUM(W)", Num(9400))>>
                  => msg = "The total is 94."

C15_Witness ==
    \E r \in DOMAIN pc :
        /\ SingleValueFallback(r)
        /\ queryResults[r] = <<Row1("AVG(ERA)", Num(350))>>
        /\ response[r].body.message = "The average is 3.50."

\* A column name with two aggregates takes the first template that applies.
C15_WitnessOrder ==
    \E r \in DOMAIN pc :
        /\ SingleValueFallback(r)
        /\ TheKey(r) = "COUNT(*)+AVG(W)"
        /\ response[r].body.message = "The average is 111.00."

\* The cells of one line of a table of n columns.
Cells(line, n) == IF n = 0 /\ line = "" THEN <<>> ELSE Split(line, " | ")

\* The fallback formatter answered r over two or more rows.
TableFallback(r) == branch[r] = "fallback" /\ Len(queryResults[r]) >= 2

\* C16: a fallback over two or more rows renders a table whose header lists
\* exactly the column names of the first row in order, followed by a
\* separator row and one data row per record in input order; every data row
\* has one cell per header column, a null value renders as an empty cell and
\* a numeric value renders with exactly two decimal places.
C16_TableRendering ==
    \A r \in DOMAIN pc :
        TableFallback(r)
        => LET rows == queryResults[r]
               keys == Keys(rows[1])
               lines == Split(response[r].body.message, "\n")
           IN /\ Len(lines) = Len(rows) + 2
              /\ Cells(lines[1], Len(keys)) = keys
              /\ Cells(lines[2], Len(keys)) = [i \in 1..Len(keys) |-> "---"]
              /\ \A n \in 1..Len(rows) :
                   LET cells == Cells(lines[n + 2], Len(keys))
                   IN /\ Len(cells) = Len(keys)
                      /\ \A i \in 1..Len(keys) :
                           LET value == Get(rows[n], keys[i])
                           IN /\ value.t = "null" => cells[i] = ""
                              /\ value.t = "num"
                                  => /\ TwoDecimalText(cells[i])
                                     /\ ParseFloatStr(cells[i]) = value
                              /\ value.t = "str" => cells[i] = value.s

C16_Witness ==
    \E r \in DOMAIN pc :
        /\ TableFallback(r)
        /\ queryResults[r] = <<Row2("teamID", Null, "L", Num(-150)),
                               Row2("teamID", Str("SEA"), "L", Num(9400))>>
        /\ response[r].body.message
             = "teamID | L\n--- | ---\n | -1.50\nSEA | 94.00"

\* r is one of the requests the handler has a route for.
Routed(r) ==
    \/ request[r].method = "OPTIONS"
    \/ ChatRequest(r)
    \/ request[r].method = "GET" /\ request[r].path \in {"/", "/index.html"}

\* C17: every request that is not OPTIONS, not POST /api/chat, and not GET /
\* or GET /index.html (any other path, or any other method on those paths)
\* is answered 404 with the plain text 'Not found'.
C17_OtherRequestsAre404 ==
    \A r \in DOMAIN pc :
        (~Routed(r) /\ pc[r] = "done")
        => /\ response[r].status = 404
           /\ response[r].body = Str("Not found")

\* C18: an OPTIONS request to any path (/api/chat included) is answered with
\* an empty body and the permissive cross-origin headers (any origin; GET,
\* POST, OPTIONS; Content-Type), and triggers no model or database call.
C18_PreflightAnyPath ==
    \A r \in DOMAIN pc :
        request[r].method = "OPTIONS"
        => /\ aiCalls[r] = <<>> /\ dbCalls[r] = <<>> /\ inflight[r] = {}
           /\ pc[r] \in {"start", "done"}
           /\ pc[r] = "done"
               => /\ response[r].body = Null
                  /\ response[r].headers["Access-Control-Allow-Origin"] = "*"
                  /\ response[r].headers["Access-Control-Allow-Methods"]
                       = "GET, POST, OPTIONS"
                  /\ response[r].headers["Access-Control-Allow-Headers"]
                       = "Content-Type"

C18_Witness ==
    \E r \in DOMAIN pc :
        /\ request[r].method = "OPTIONS"
        /\ request[r].path = "/other"
        /\ pc[r] = "done"
        /\ response[r] = PreflightResponse

\* C19: every JSON response the handler produces (200, 400 and 500 alike)
\* carries the header Access-Control-Allow-Origin: *.
C19_JsonResponsesAllowAnyOrigin ==
    \A r \in DOMAIN pc :
        (pc[r] = "done" /\ "Content-Type" \in DOMAIN response[r].headers
                       /\ response[r].headers["Content-Type"]
                            = "application/json")
        => /\ "Access-Control-Allow-Origin" \in DOMAIN response[r].headers
           /\ response[r].headers["Access-Control-Allow-Origin"] = "*"

C19_Witness ==
    \E r \in DOMAIN pc :
        /\ pc[r] = "done"
        /\ response[r].status = 400
        /\ response[r].headers
             = ("Content-Type" :> "application/json")
               @@ ("Access-Control-Allow-Origin" :> "*")

\* The number of semicolons of s.
RECURSIVE Semicolons(_)
Semicolons(s) ==
    IF s = "" THEN 0
    ELSE (IF Head(s) = ";" THEN 1 ELSE 0) + Semicolons(Tail(s))

\* The text the model returned to the synthesis call of r.
RawSql(r) == Get(replies[r].synthesis.value, "response").s

\* C20: for every text the model returns, the SQL handed to the executor
\* has no leading or trailing whitespace, contains no code-fence delimiter,
\* and ends with a semicolon: the text's own semicolons and at most one more,
\* which is appended only where the statement did not end with one.
C20_NormalizedSql ==
    \A r \in DOMAIN pc :
        dbCalls[r] # <<>>
        => LET out == dbCalls[r][1]
           IN /\ Len(dbCalls[r]) = 1
              /\ out # ""
              /\ ~IsWhitespace(CharAt(out, 1))
              /\ ~IsWhitespace(CharAt(out, Len(out)))
              /\ ~Includes(out, Fence)
              /\ EndsWith(out, ";")
              /\ Semicolons(out) - Semicolons(RawSql(r)) \in {0, 1}
              /\ Semicolons(out) = Semicolons(RawSql(r)) + 1
                  => ~EndsWith(out, ";;")

\* A fenced statement followed by blank space: fence, tag and blanks go and
\* one semicolon is appended.
C20_Witness ==
    \E r \in DOMAIN pc :
        /\ dbCalls[r] = <<"SELECT 1;">>
        /\ RawSql(r) = Fence \o "sqlSELECT 1\n"

\* Four backquotes after a fence leave one backquote, not a fence.
C20_WitnessRun ==
    \E r \in DOMAIN pc :
        /\ dbCalls[r] = <<Backquote \o "SELECT 1;">>
        /\ RawSql(r) = Fence \o Backquote \o "SELECT 1;"

\* executeQuery returned to fetch for r, so formatResponse was called, and
\* fetch has answered.
ComposerAnswered(r) == replies[r].db.kind = "return" /\ pc[r] = "done"

\* The summarization call of r returned a string whose trimmed length is at
\* least ten.
SummaryUsable(r) ==
    /\ replies[r].summary.kind = "return"
    /\ Get(replies[r].summary.value, "response").t = "str"
    /\ Len(Trim(Get(replies[r].summary.value, "response").s)) >= 10

\* C21: for each request that reaches the Response Composer exactly one of
\* the three branches produces the message: empty-result when there are zero
\* rows; model-summarization when rows exist and the trimmed model text has
\* at least 10 characters, and that trimmed text is then the message;
\* deterministic-fallback otherwise.
C21_ThreeBranches ==
    \A r \in DOMAIN pc :
        ComposerAnswered(r)
        => LET msg == response[r].body.message
               rows == EngineRows(r)
           IN /\ response[r].status = 200
              /\ branch[r] \in {"empty", "model", "fallback"}
              /\ (branch[r] = "empty") = (Len(rows) = 0)
              /\ (branch[r] = "model") = (Len(rows) > 0 /\ SummaryUsable(r))
              /\ branch[r] = "empty"
                  => msg = NO_DATA_MESSAGE /\ replies[r].summary = NoReply
              /\ branch[r] = "model"
                  => msg = Trim(Get(replies[r].summary.value, "response").s)
              /\ branch[r] = "fallback"
                  => msg = formatSimple(rows, ToStr(MessageOf(r)))

C21_Witness ==
    \E r \in DOMAIN pc :
        /\ ComposerAnswered(r)
        /\ branch[r] = "model"
        /\ replies[r].summary
             = Completion(Str("  The Yankees won 94 games in 2024.\n"))
        /\ response[r].body.message = "The Yankees won 94 games in 2024."

\* The fallback formatter answered r over exactly one row of several columns.
SentenceFallback(r) ==
    /\ branch[r] = "fallback"
    /\ Len(queryResults[r]) = 1
    /\ Len(Keys(queryResults[r][1])) > 1

\* The row has a value in column k.
Present(row, k) == Get(row, k).t \notin {"undefined", "null"}

\* The parts of the sentence for the well-known columns that are present,
\* in the fixed order.
PresentParts(row) ==
    (IF Present(row, "nameFirst") /\ Present(row, "nameLast")
     THEN <<ToStr(Get(row, "nameFirst")) \o " " \o ToStr(Get(row, "nameLast"))>>
     ELSE <<>>)
    \o (IF Present(row, "ERA")
        THEN <<"ERA: " \o ToFixed2(ParseFloat(Get(row, "ERA")))>> ELSE <<>>)
    \o (IF Present(row, "SO")
        THEN <<ToStr(Get(row, "SO")) \o " SO">> ELSE <<>>)
    \o (IF Present(row, "W")
        THEN <<ToStr(Get(row, "W")) \o " W">> ELSE <<>>)
    \o (IF Present(row, "yearID")
        THEN <<"(" \o ToStr(Get(row, "yearID")) \o ")">> ELSE <<>>)

\* C22: a fallback over exactly one row with several columns builds the
\* sentence from whichever of full name (nameFirst and nameLast), ERA, SO, W
\* and yearID are present, in that fixed order and joined by single spaces,
\* and returns the JSON dump of the row when none of them is present.
C22_SentenceFromPresentColumns ==
    \A r \in DOMAIN pc :
        SentenceFallback(r)
        => LET row == queryResults[r][1]
           IN response[r].body.message
                = IF PresentParts(row) = <<>> THEN JsonStringify(row)
                  ELSE Join(PresentParts(row), " ")

\* Every well-known column the row has holds a value that is neither null,
\* zero nor the empty string.
ProperValues(row) ==
    \A k \in {"nameFirst", "nameLast", "ERA", "SO", "W", "yearID"} :
        Get(row, k).t # "undefined" => Truthy(Get(row, k))

\* On rows whose well-known columns hold proper values the sentence is the
\* one C22 describes.
C22_HoldsForProperValues ==
    \A r \in DOMAIN pc :
        (SentenceFallback(r) /\ ProperValues(queryResults[r][1]))
        => LET row == queryResults[r][1]
           IN response[r].body.message
                = IF PresentParts(row) = <<>> THEN JsonStringify(row)
                  ELSE Join(PresentParts(row), " ")

C22_ProperWitness ==
    \E r \in DOMAIN pc :
        /\ SentenceFallback(r)
        /\ response[r].body.message = "Jacob deGrom ERA: 2.54"

C22_NullEraWitness ==
    \E r \in DOMAIN pc :
        /\ SentenceFallback(r)
        /\ queryResults[r]
             = <<Row3("nameFirst", Str("Max"), "nameLast", Str("Scherzer"),
                      "ERA", Null)>>
        /\ response[r].body.message = "Max Scherzer ERA: NaN"

\* The stages of one request in pipeline order.
StageRank(p) ==
    CASE p = "start" -> 0 [] p = "json" -> 1 [] p = "synthesis" -> 2
      [] p = "db" -> 3 [] p = "summary" -> 4 [] p = "done" -> 5

\* The number of calls request r made to the model from the given site.
CallsFrom(r, site) ==
    Cardinality({i \in 1..Len(aiCalls[r]) : aiCalls[r][i].site = site})

\* Request r made at most one call of each kind.
AtMostOnceEach(r) ==
    /\ Len(aiCalls[r]) <= 2
    /\ CallsFrom(r, "synthesis") <= 1
    /\ CallsFrom(r, "summary") <= 1
    /\ Len(dbCalls[r]) <= 1

\* A step of request r does not take it to an earlier stage and does not
\* withdraw a call it made.
MovesForward(r) ==
    pc[r] # "done"
    => /\ StageRank(pc'[r]) >= StageRank(pc[r])
       /\ IsPrefix(aiCalls[r], aiCalls'[r])
       /\ IsPrefix(dbCalls[r], dbCalls'[r])
       /\ IsPrefix(events[r], events'[r])

\* C23: data flows strictly forward with no feedback loop: in any single
\* request the model endpoint is called at most twice (once for synthesis,
\* at most once for summarization) and the database at most once, and no
\* stage is re-entered after a later stage has started.
C23_ForwardOnly ==
    /\ [](\A r \in DOMAIN pc : AtMostOnceEach(r))
    /\ [][\A r \in DOMAIN pc : MovesForward(r)]_vars

C23_Witness ==
    \E r \in DOMAIN pc :
        /\ pc[r] = "done"
        /\ CallsFrom(r, "synthesis") = 1
        /\ CallsFrom(r, "summary") = 1
        /\ dbCalls[r] = <<"SELECT SUM(W) FROM teams;">>
        /\ aiCalls[r][1].site = "synthesis"

\* The column name of the single value of r names no aggregate.
PlainColumn(r) ==
    /\ ~Includes(TheKey(r), "SUM(")
    /\ ~Includes(TheKey(r), "AVG(")
    /\ ~Includes(TheKey(r), "COUNT(")

\* C24 as stated: a fallback over exactly one row with exactly one column
\* whose name contains none of 'SUM(', 'AVG(', 'COUNT(' yields the generic
\* sentence 'Result: {column} = {value}'.
C24_AsStated ==
    \A r \in DOMAIN pc :
        (SingleValueFallback(r) /\ PlainColumn(r))
        => response[r].body.message
             = "Result: " \o TheKey(r) \o " = " \o ToStr(TheValue(r))

\* C24: a fallback over exactly one row with exactly one column whose name
\* contains none of 'SUM(', 'AVG(', 'COUNT(' and whose value is not null
\* yields the generic sentence 'Result: {column} = {value}'; a null value
\* yields 'No data available.'.
C24_GenericSentence ==
    \A r \in DOMAIN pc :
        (SingleValueFallback(r) /\ PlainColumn(r))
        => LET msg == response[r].body.message
           IN IF TheValue(r).t = "null" THEN msg = "No data available."
              ELSE /\ StartsWith(msg, "Result: ")
                   /\ Split(Drop(msg, Len("Result: ")), " = ")
                        = <<TheKey(r), ToStr(TheValue(r))>>

C24_Witness ==
    \E r \in DOMAIN pc :
        /\ SingleValueFallback(r)
        /\ queryResults[r] = <<Row1("name", Str("Seattle Mariners"))>>
        /\ response[r].body.message = "Result: name = Seattle Mariners"

\* C25: a fallback over exactly one row with exactly one column whose value
\* is null returns 'No data available.' whatever the column name is, names
\* containing 'SUM(', 'AVG(' or 'COUNT(' included; the aggregate templates
\* apply only to non-null values.
C25_NullIsNoData ==
    \A r \in DOMAIN pc :
        SingleValueFallback(r)
        => LET msg == response[r].body.message
               templated == \/ StartsWith(msg, "The total is ")
                            \/ StartsWith(msg, "The average is ")
                            \/ StartsWith(msg, "The count is ")
           IN /\ TheValue(r).t = "null" => msg = "No data available."
              /\ templated => TheValue(r).t # "null"

C25_Witness ==
    \E r \in DOMAIN pc :
        /\ SingleValueFallback(r)
        /\ queryResults[r] = <<Row1("AVG(ERA)", Null)>>
        /\ response[r].body.message = "No data available."

\* The string formatSimple and formatTable return for an empty row sequence.
NO_RESULTS_FOUND == "No results found."

\* C26: in the pipeline the fallback formatter is only ever entered with at
\* least one row: formatSimple and formatTable are never called with an
\* empty row sequence, so no message the pipeline composes is their
\* defensive string 'No results found.'.
C26_FallbackHasRows ==
    \A r \in DOMAIN pc :
        /\ branch[r] = "fallback"
            => /\ Len(queryResults[r]) >= 1
               /\ response[r].body.message # NO_RESULTS_FOUND
               /\ response[r].body.message
                    = formatSimple(queryResults[r], ToStr(message[r]))
        /\ (pc[r] \in {"summary", "done"} /\ Len(queryResults[r]) = 0)
            => /\ pc[r] = "done"
               /\ branch[r] \in {"none", "empty"}
               /\ Len(aiCalls[r]) <= 1
        /\ branch[r] = "empty" => response[r].body.message # NO_RESULTS_FOUND

C26_Witness ==
    \E r \in DOMAIN pc :
        /\ branch[r] = "fallback"
        /\ replies[r].summary = Completion(Str("   "))
        /\ Len(queryResults[r]) = MaxRows
        /\ StartsWith(response[r].body.message, "name\n---\n")

\* The engine completed the statement of r without error and supplied no
\* row list.
NoRowList(r) == replies[r].db.kind = "return" /\ ~replies[r].db.hasResults

\* C27: when the database engine completes without error but supplies no
\* row list, the executor returns an empty sequence, the request takes the
\* empty-result branch (fixed message, no summarization call) and the 200
\* response has results equal to the empty array.
C27_MissingRowListIsEmpty ==
    \A r \in DOMAIN pc :
        NoRowList(r)
        => /\ queryResults[r] = <<>>
           /\ branch[r] = "empty"
           /\ pc[r] = "done"
           /\ response[r].status = 200
           /\ response[r].body.success = TRUE
           /\ response[r].body.message = NO_DATA_MESSAGE
           /\ response[r].body.results = <<>>
           /\ CallsFrom(r, "summary") = 0
           /\ replies[r].summary = NoReply

C27_Witness ==
    \E r \in DOMAIN pc :
        /\ NoRowList(r)
        /\ sqlQuery[r] = "SELECT SUM(W) FROM teams;"
        /\ response[r] = SuccessResponse(NO_DATA_MESSAGE, sqlQuery[r], <<>>)

\* C28: SQL normalization is idempotent: applying the post-processing of
\* generateSQL (strip fences, trim, append semicolon if absent) to the
\* statement it produced returns the same string.
C28_NormalizationIdempotent ==
    \A r \in DOMAIN pc :
        \A i \in 1..Len(dbCalls[r]) :
            /\ dbCalls[r][i] = NormalizeSQL(RawSql(r))
            /\ NormalizeSQL(dbCalls[r][i]) = dbCalls[r][i]

\* A text that normalization changed, and whose result it leaves alone.
C28_Witness ==
    \E r \in DOMAIN pc :
        /\ dbCalls[r] = <<"SELECT 1;">>
        /\ RawSql(r) = " " \o Fence \o "\nSELECT 1"
        /\ NormalizeSQL("SELECT 1;") = "SELECT 1;"

\* The entries of the sql array, which the script writes one after another.
Emitted == seed.sql

\* The indexes of the emitted entries that are a statement of one kind.
LinesWith(prefix) ==
    {i \in 1..Len(Emitted) : StartsWith(Emitted[i], prefix)}

Drops == LinesWith("DROP TABLE ")

Creates == LinesWith("CREATE TABLE ")

InsertsInto(table) == LinesWith("INSERT INTO " \o table \o " (")

Before(A, B) == \A i \in A, j \in B : i < j

\* The data lines of a CSV file as the script reads them.
DataLines(content) == Tail(Split(Trim(content), "\n"))

\* The first value of a data line, as SQL text.
KeyText(line, quoted) ==
    LET key == Trim(Split(line, ",")[1])
    IN IF quoted THEN "'" \o key \o "'" ELSE key

\* The statements of one table are one per data line, in their order, each
\* carrying the first value of its line.
InRowOrder(table, columns, content, quoted) ==
    LET lines == DataLines(content)
        at == InsertsInto(table)
        nth(n) == CHOOSE i \in at : Cardinality({j \in at : j < i}) = n - 1
    IN /\ Cardinality(at) = Len(lines)
       /\ \A n \in 1..Len(lines) :
             StartsWith(Emitted[nth(n)],
                        "INSERT INTO " \o table \o " (" \o Join(columns, ", ")
                        \o ") VALUES (" \o KeyText(lines[n], quoted) \o ",")

\* C29: the seed script emits its statements in an order that lets
\* referential integrity hold at load time: the three DROPs (pitching,
\* teams, people) come first, then the CREATEs with people before pitching,
\* then all people INSERTs before any pitching INSERT, each table's INSERTs
\* in the order of its CSV rows, one INSERT per row.
C29_StatementOrder ==
    seed.pc \in {"import", "written"} =>
        /\ seed.pc = "written" => seed.out = Join(Emitted, "\n")
        /\ SubSeq(Emitted, 1, 3) = <<"DROP TABLE IF EXISTS pitching;",
                                     "DROP TABLE IF EXISTS teams;",
                                     "DROP TABLE IF EXISTS people;">>
        /\ Drops = {1, 2, 3}
        /\ Cardinality(Creates) = 3
        /\ Before(Drops, Creates)
        /\ Before(LinesWith("CREATE TABLE people "),
                  LinesWith("CREATE TABLE pitching "))
        /\ LinesWith("CREATE TABLE people ") # {}
        /\ LinesWith("CREATE TABLE pitching ") # {}
        /\ Before(Creates, LinesWith("INSERT INTO "))
        /\ Before(InsertsInto("people"), InsertsInto("pitching"))
        /\ InRowOrder("people", PeopleColumns, seed.files.people, TRUE)
        /\ InRowOrder("teams", TeamsColumns, seed.files.teams, FALSE)
        /\ InRowOrder("pitching", PitchingColumns, seed.files.pitching, TRUE)

\* Two people in one order, and a pitching line of the second of them.
C29_Witness ==
    /\ seed.pc = "written"
    /\ DataLines(seed.files.people) = <<"oneilpa01,1963,Paul,O'Neill",
                                        "degroja01,1988,Jacob,deGrom">>
    /\ Len(DataLines(seed.files.pitching)) = 2
    /\ Cardinality(InsertsInto("people")) = 2
    /\ Cardinality(InsertsInto("pitching")) = 2
    /\ \E i \in InsertsInto("people") :
          Emitted[i] = "INSERT INTO people (playerID, nameFirst, nameLast) "
                       \o "VALUES ('oneilpa01', 'Paul', 'O''Neill');"

\* C30: in the chat page, while one /api/chat request issued by sendMessage
\* is in flight no second request can be started by any user action (send
\* button, Enter key in the input, or an example button); the controls are
\* re-enabled only when that request has completed, on success and on
\* failure alike.
C30_OneRequestAtATime ==
    /\ Cardinality(InFlight(page)) <= 1
    /\ InFlight(page) # {} => page.sendDisabled
    /\ (InFlight(page) = {} /\ \E c \in 1..MaxSends : page.calls[c] = "done")
          => ~page.sendDisabled /\ ~page.inputDisabled

\* The same statement of the version of the page in part_000 alone, which
\* disables the input as well and hides the example buttons.
C30_HoldsOfPart000 ==
    page.src = "src/unnamed/part_000" => C30_OneRequestAtATime

\* The page of agent.ts with two requests in flight, the second one started
\* by the user while the first was pending.
C30_SecondRequestStarted ==
    /\ page.src = "src/workers/agent.ts"
    /\ Cardinality(InFlight(page)) = 2
    /\ page.sendDisabled

\* The page of agent.ts with the send button enabled again while a request
\* is still in flight.
C30_EnabledWhileInFlight ==
    /\ page.src = "src/workers/agent.ts"
    /\ InFlight(page) # {}
    /\ ~page.sendDisabled

====
